---- MODULE Spec2Model ----
(***************************************************************************)
(* Model of ScriptureSearcher: the query tokenizer and parser              *)
(* (src/query_string_parsing.py), the query evaluation engine              *)
(* (src/text_query.py, src/helpers.py), the chapter/verse references       *)
(* (src/reference.py), the morphology decoders of the dataset generation   *)
(* (src/generation/generate_lxx.py, src/generation/generate_opengnt.py)    *)
(* and the search loop (src/scripture_searcher.py).                        *)
(*                                                                         *)
(* A Python str is a sequence of one-character strings, so that the        *)
(* character-level scanning, stripping and splitting of the source are     *)
(* computed rather than assumed.  A Python list is a sequence.             *)
(***************************************************************************)
EXTENDS Integers, Sequences, FiniteSets, TLC

VARIABLES
    command,       \* _tokenize_command_str: the input string
    idx,           \* _tokenize_command_str: the scan index (0-based)
    state,         \* _tokenize_command_str: the FSM state
    tokens,        \* _tokenize_command_str: the token list built so far
    paren_depth,   \* _tokenize_command_str: the current grouping depth
    command_str,   \* _tokenize_command_str: the command accumulated so far
    outcome,       \* "running", "returned", or the exception raised
    parsed,        \* what to_query gave for command (NotCalled before the call)
    heap,          \* the Python lists alive during a search, by identity
    query,         \* the query tree handed to search
    output_data,   \* the list search returned (an identity in heap), 0 before
    calls,         \* how many times search has been called on query
    ref_self,      \* Reference comparison: the left operand
    ref_other,     \* Reference comparison: the right operand
    ref_cmp,       \* what the comparison operators gave for the two
    con_a,         \* containment: the outer object A
    con_b,         \* containment: the object B tested against A
    con_c,         \* containment: the object C tested against B and A
    con_res,       \* what the `in` tests gave
    str_in,        \* from_str: the string handed to it
    str_out,       \* from_str: what it returned or raised
    dec_set,       \* generation: the dataset being generated, "lxx" or "gnt"
    dec_data,      \* generation: lxx_data, or the rows read from the OpenGNT
    dec_out,       \* generation: what the decoding returned or raised
    lex_scan       \* _cmd_to_lexeme_search: its local variables

vars == <<command, idx, state, tokens, paren_depth, command_str, outcome,
          parsed, heap, query, output_data, calls, ref_self, ref_other, ref_cmp,
          con_a, con_b, con_c, con_res, str_in, str_out,
          dec_set, dec_data, dec_out, lex_scan>>

tokVars == <<command, idx, state, tokens, paren_depth, command_str, outcome>>
searchVars == <<heap, query, output_data, calls>>
refVars == <<ref_self, ref_other, ref_cmp>>
conVars == <<con_a, con_b, con_c, con_res>>
strVars == <<str_in, str_out>>
decVars == <<dec_set, dec_data, dec_out>>
scanVars == <<lex_scan>>
libVars == <<conVars, strVars, decVars, scanVars>>

----------------------------------------------------------------------------
(* Bounds of the model. *)

\* the tokenizer's inputs are concatenations of at most MaxPieces pieces
MaxPieces == 5

----------------------------------------------------------------------------
(* Python str operations used by the source. *)

\* None, distinct from every str
None == <<"None">>

\* str.isspace() on one character
IsSpace(c) == c \in {" ", "\t"}

NonSpaceIdx(s) == {i \in 1..Len(s) : ~IsSpace(s[i])}

SetMin(S) == CHOOSE x \in S : \A y \in S : x <= y
SetMax(S) == CHOOSE x \in S : \A y \in S : x >= y

\* str.strip()
Strip(s) ==
    IF NonSpaceIdx(s) = {} THEN <<>>
    ELSE SubSeq(s, SetMin(NonSpaceIdx(s)), SetMax(NonSpaceIdx(s)))

\* str.split(): the maximal runs of non-whitespace, in order
Split(s) ==
    LET starts == {i \in NonSpaceIdx(s) : i = 1 \/ IsSpace(s[i-1])}
        ends   == {i \in NonSpaceIdx(s) : i = Len(s) \/ IsSpace(s[i+1])}
        kth(S, k) == CHOOSE i \in S : Cardinality({j \in S : j < i}) = k - 1
    IN  [k \in 1..Cardinality(starts) |-> SubSeq(s, kth(starts, k), kth(ends, k))]

\* sep.join(words)
RECURSIVE Join(_, _)
Join(words, sep) ==
    IF Len(words) = 0 THEN <<>>
    ELSE IF Len(words) = 1 THEN words[1]
    ELSE words[1] \o sep \o Join(Tail(words), sep)

DigitChars == <<"0", "1", "2", "3", "4", "5", "6", "7", "8", "9">>

\* str(n) for n >= 0, as in f'({paren_depth}'
RECURSIVE DecStr(_)
DecStr(n) ==
    IF n < 10 THEN <<DigitChars[n + 1]>>
    ELSE DecStr(n \div 10) \o <<DigitChars[(n % 10) + 1]>>

IsDigit(c) == \E d \in 1..10 : DigitChars[d] = c
DigitVal(c) == (CHOOSE d \in 1..10 : DigitChars[d] = c) - 1

\* int(s) for a str of decimal digits; -1 stands for the ValueError of int()
RECURSIVE ParseInt(_)
ParseInt(s) ==
    IF Len(s) = 0 \/ \E i \in 1..Len(s) : ~IsDigit(s[i]) THEN -1
    ELSE IF Len(s) = 1 THEN DigitVal(s[1])
    ELSE 10 * ParseInt(SubSeq(s, 1, Len(s) - 1)) + DigitVal(s[Len(s)])

S_and == <<"a", "n", "d">>
S_or == <<"o", "r">>
S_amp == <<"&">>
S_bar == <<"|">>

----------------------------------------------------------------------------
(* _tokenize_command_str, src/query_string_parsing.py:15-86 *)

\* the tokenizer's local state as one value
TokState(c, i, st, tk, pd, cs, oc) ==
    [command |-> c, idx |-> i, state |-> st, tokens |-> tk,
     paren_depth |-> pd, command_str |-> cs, outcome |-> oc]

TokStart(c) == TokState(c, 0, "DEFAULT_STATE", <<>>, 0, <<>>, "running")

\* how far idx moves after an and/or was recognised (lines 62, 67, 73, 79)
OperatorSkip == 1

\* one iteration of the loop in state DEFAULT_STATE (lines 25-42)
DefaultStep(t) ==
    LET char == t.command[t.idx + 1] IN
    IF char = "(" \/ char = "[" THEN
        [t EXCEPT !.tokens = Append(@, <<"(">> \o DecStr(t.paren_depth)),
                  !.paren_depth = @ + 1,
                  !.idx = @ + 1]
    ELSE IF char = ")" \/ char = "]" THEN
        IF t.paren_depth - 1 < 0 THEN
            [t EXCEPT !.paren_depth = @ - 1,
                      !.outcome = "ValueError: Invalid parentheses in string."]
        ELSE
            [t EXCEPT !.paren_depth = @ - 1,
                      !.tokens = Append(@, <<")">> \o DecStr(t.paren_depth - 1)),
                      !.idx = @ + 1]
    ELSE IF IsSpace(char) THEN
        [t EXCEPT !.idx = @ + 1]
    ELSE
        [t EXCEPT !.state = "PARSING_COMMAND"]

\* the and/or recognition after a character was accumulated (lines 56-79)
PromoteOperator(t) ==
    LET stripped == Strip(t.command_str)
        split == Split(t.command_str)
        front == Join(SubSeq(split, 1, Len(split) - 1), <<" ">>)
        emit(toks) == [t EXCEPT !.tokens = @ \o toks,
                                !.command_str = <<>>,
                                !.state = "DEFAULT_STATE",
                                !.idx = @ + OperatorSkip]
    IN
    IF stripped = S_and THEN emit(<<S_amp>>)
    ELSE IF stripped = S_or THEN emit(<<S_bar>>)
    ELSE IF Len(split) = 0 THEN [t EXCEPT !.outcome = "IndexError"]
    ELSE IF split[Len(split)] = S_and THEN emit(<<front, S_amp>>)
    ELSE IF split[Len(split)] = S_or THEN emit(<<front, S_bar>>)
    ELSE t

\* one iteration of the loop in state PARSING_COMMAND (lines 44-79)
CommandStep(t) ==
    LET char == t.command[t.idx + 1] IN
    IF char \in {"(", ")", "[", "]"} THEN
        [t EXCEPT !.state = "DEFAULT_STATE",
                  !.tokens = Append(@, Strip(t.command_str)),
                  !.command_str = <<>>]
    ELSE
        PromoteOperator([t EXCEPT !.command_str = Append(@, char),
                                  !.idx = @ + 1])

\* after the loop (lines 81-86)
FinishStep(t) ==
    IF t.paren_depth # 0 THEN
        [t EXCEPT !.outcome = "ValueError: Invalid parentheses in string."]
    ELSE IF t.command_str # <<>> THEN
        [t EXCEPT !.tokens = Append(@, t.command_str), !.outcome = "returned"]
    ELSE
        [t EXCEPT !.outcome = "returned"]

\* the whole call: iterate the loop, then finish
RECURSIVE TokRun(_)
TokRun(t) ==
    IF t.outcome # "running" THEN t
    ELSE IF ~(t.idx < Len(t.command)) THEN FinishStep(t)
    ELSE IF t.state = "DEFAULT_STATE" THEN TokRun(DefaultStep(t))
    ELSE TokRun(CommandStep(t))

Tokenize(c) == TokRun(TokStart(c))

----------------------------------------------------------------------------
(* The words of the leaf command grammar, as Python strs. *)

W_lexeme == <<"l", "e", "x", "e", "m", "e">>
W_flag_case == <<"-", "-", "c", "a", "s", "e">>
W_flag_number == <<"-", "-", "n", "u", "m", "b", "e", "r">>
W_flag_gender == <<"-", "-", "g", "e", "n", "d", "e", "r">>
W_flag_tense == <<"-", "-", "t", "e", "n", "s", "e">>
W_flag_voice == <<"-", "-", "v", "o", "i", "c", "e">>
W_flag_mood == <<"-", "-", "m", "o", "o", "d">>
W_flag_person == <<"-", "-", "p", "e", "r", "s", "o", "n">>
W_nominative == <<"n", "o", "m", "i", "n", "a", "t", "i", "v", "e">>
W_genitive == <<"g", "e", "n", "i", "t", "i", "v", "e">>
W_dative == <<"d", "a", "t", "i", "v", "e">>
W_accusative == <<"a", "c", "c", "u", "s", "a", "t", "i", "v", "e">>
W_vocative == <<"v", "o", "c", "a", "t", "i", "v", "e">>
W_singular == <<"s", "i", "n", "g", "u", "l", "a", "r">>
W_plural == <<"p", "l", "u", "r", "a", "l">>
W_dual == <<"d", "u", "a", "l">>
W_masculine == <<"m", "a", "s", "c", "u", "l", "i", "n", "e">>
W_feminine == <<"f", "e", "m", "i", "n", "i", "n", "e">>
W_neuter == <<"n", "e", "u", "t", "e", "r">>
W_present == <<"p", "r", "e", "s", "e", "n", "t">>
W_imperfect == <<"i", "m", "p", "e", "r", "f", "e", "c", "t">>
W_aorist == <<"a", "o", "r", "i", "s", "t">>
W_perfect == <<"p", "e", "r", "f", "e", "c", "t">>
W_future == <<"f", "u", "t", "u", "r", "e">>
W_pluperfect == <<"p", "l", "u", "p", "e", "r", "f", "e", "c", "t">>
W_active == <<"a", "c", "t", "i", "v", "e">>
W_middle == <<"m", "i", "d", "d", "l", "e">>
W_passive == <<"p", "a", "s", "s", "i", "v", "e">>
W_indicative == <<"i", "n", "d", "i", "c", "a", "t", "i", "v", "e">>
W_imperative == <<"i", "m", "p", "e", "r", "a", "t", "i", "v", "e">>
W_participle == <<"p", "a", "r", "t", "i", "c", "i", "p", "l", "e">>
W_infinitive == <<"i", "n", "f", "i", "n", "i", "t", "i", "v", "e">>
W_subjunctive == <<"s", "u", "b", "j", "u", "n", "c", "t", "i", "v", "e">>
W_optative == <<"o", "p", "t", "a", "t", "i", "v", "e">>
W_first == <<"f", "i", "r", "s", "t">>
W_second == <<"s", "e", "c", "o", "n", "d">>
W_third == <<"t", "h", "i", "r", "d">>

----------------------------------------------------------------------------
(* Results of calls that may raise. *)

Return(v) == [ok |-> TRUE, v |-> v]
\* exc: the exception class; msg: its message template; arg: the value the
\* message interpolates (a str, or a field name the message spells out)
Raise(exc, msg, arg) == [ok |-> FALSE, exc |-> exc, msg |-> msg, arg |-> arg]

----------------------------------------------------------------------------
(* Query trees, src/text_query.py *)

Fields == <<"case", "number", "gender", "tense", "voice", "mood", "person">>
FieldSet == {Fields[k] : k \in 1..Len(Fields)}

\* LexemeQuery.__init__ (lines 73-81)
LexemeQuery(lexeme) ==
    [type |-> "LexemeQuery", lexeme |-> lexeme,
     filters |-> [f \in FieldSet |-> None]]

\* MorphologySearch.__init__ (lines 135-137)
MorphologySearch(property, value) ==
    [type |-> "MorphologySearch", property |-> property, value |-> value]

\* AndQuery.__init__ (lines 19-21)
AndQuery(lhs, rhs) == [type |-> "AndQuery", lhs |-> lhs, rhs |-> rhs]

\* OrQuery.__init__ (lines 37-39)
OrQuery(lhs, rhs) == [type |-> "OrQuery", lhs |-> lhs, rhs |-> rhs]

\* AnteQuery.__init__ (lines 149-150)
AnteQuery(number) == [type |-> "AnteQuery", number |-> number]

\* PostQuery.__init__ (lines 175-176)
PostQuery(number) == [type |-> "PostQuery", number |-> number]

\* WindowQuery.__init__ (lines 202-205): an OrQuery of an ante and a post
WindowQuery(ante, post) ==
    [type |-> "OrQuery", lhs |-> AnteQuery(ante), rhs |-> PostQuery(post)]

----------------------------------------------------------------------------
(* _cmd_to_lexeme_search, src/query_string_parsing.py:99-237 *)

\* the flag that moves the scanner out of DEFAULT_STATE (lines 124-144)
FlagField(token) ==
    CASE token = W_flag_case -> "case"
      [] token = W_flag_number -> "number"
      [] token = W_flag_gender -> "gender"
      [] token = W_flag_tense -> "tense"
      [] token = W_flag_voice -> "voice"
      [] token = W_flag_mood -> "mood"
      [] token = W_flag_person -> "person"
      [] OTHER -> "none"

\* the values each PARSING_ state accepts (lines 151, 160, 169, 178, 187, 196, 205)
AcceptedValues(field) ==
    CASE field = "case" -> {W_nominative, W_genitive, W_dative, W_accusative}
      [] field = "number" -> {W_singular, W_plural, W_dual}
      [] field = "gender" -> {W_masculine, W_feminine, W_neuter}
      [] field = "tense" -> {W_present, W_imperfect, W_aorist, W_perfect,
                             W_future, W_pluperfect}
      [] field = "voice" -> {W_active, W_middle, W_passive}
      [] field = "mood" -> {W_indicative, W_imperative, W_participle,
                            W_infinitive, W_subjunctive, W_optative}
      [] field = "person" -> {W_first, W_second, W_third}

\* the field the "cannot define ... twice" message names (lines 150-204)
TwiceNamed(field) ==
    IF field \in {"voice", "mood", "person"} THEN "tense" ELSE field

\* the "Value: not a ..." messages (lines 152-206)
NotAMessage(field) ==
    CASE field = "case" -> "Value: not a case"
      [] field = "number" -> "Value: not a number"
      [] field = "gender" -> "Value: not a gender"
      [] field = "tense" -> "Value: not a tense"
      [] field = "voice" -> "Value: not a voice"
      [] field = "mood" -> "Value: not a mood"
      [] field = "person" -> "Value: not a person"

\* the scanner's states PARSING_CASE .. PARSING_PERSON are named by their field
LexStart(cmd_tokens) ==
    [cmd_tokens |-> Tail(cmd_tokens), lexeme |-> cmd_tokens[1], i |-> 0,
     state |-> "DEFAULT_STATE", filters |-> [f \in FieldSet |-> None],
     result |-> Raise("none", "running", <<>>)]

\* a variant that recognises a flag and stays on its token
LexStep_FlagStays(s) ==
    LET token == s.cmd_tokens[s.i + 1] IN
    IF s.state = "DEFAULT_STATE" THEN
        IF FlagField(token) # "none" THEN
            [s EXCEPT !.state = FlagField(token)]
        ELSE
            [s EXCEPT !.result =
                Raise("ValueError", "Syntax: invalid search token", token)]
    ELSE
        IF s.filters[s.state] # None THEN
            [s EXCEPT !.result =
                Raise("ValueError", "Syntax: cannot define twice",
                      TwiceNamed(s.state))]
        ELSE IF token \notin AcceptedValues(s.state) THEN
            [s EXCEPT !.result = Raise("ValueError", NotAMessage(s.state), token)]
        ELSE
            [s EXCEPT !.filters[s.state] = token, !.i = @ + 1,
                      !.state = "DEFAULT_STATE"]

\* one iteration of the flag scanner's loop (lines 120-209)
LexStep(s) ==
    LET token == s.cmd_tokens[s.i + 1] IN
    IF s.state = "DEFAULT_STATE" THEN
        IF FlagField(token) # "none" THEN
            [s EXCEPT !.state = FlagField(token), !.i = @ + 1]
        ELSE
            [s EXCEPT !.result =
                Raise("ValueError", "Syntax: invalid search token", token)]
    ELSE
        IF s.filters[s.state] # None THEN
            [s EXCEPT !.result =
                Raise("ValueError", "Syntax: cannot define twice",
                      TwiceNamed(s.state))]
        ELSE IF token \notin AcceptedValues(s.state) THEN
            [s EXCEPT !.result = Raise("ValueError", NotAMessage(s.state), token)]
        ELSE
            [s EXCEPT !.filters[s.state] = token, !.i = @ + 1,
                      !.state = "DEFAULT_STATE"]

\* after the loop (lines 211-237)
LexFinish(s) ==
    IF s.state # "DEFAULT_STATE" THEN
        Raise("ValueError", "Syntax: lacking argument to", s.state)
    ELSE
        Return([LexemeQuery(s.lexeme) EXCEPT !.filters = s.filters])

RECURSIVE LexRun(_)
LexRun(s) ==
    IF s.result.exc # "none" THEN s.result
    ELSE IF ~(s.i < Len(s.cmd_tokens)) THEN LexFinish(s)
    ELSE LexRun(LexStep(s))

CmdToLexemeSearch(cmd_tokens) ==
    IF Len(cmd_tokens) = 0 THEN
        Raise("ValueError",
              "Syntax: no arguments given to search type lexeme", <<>>)
    ELSE LexRun(LexStart(cmd_tokens))

\* _cmd_to_query, src/query_string_parsing.py:240-252
CmdToQuery(cmd) ==
    LET cmd_tokens == Split(cmd) IN
    IF Len(cmd_tokens) = 0 THEN
        Raise("ValueError", "Invalid empty command given.", <<>>)
    ELSE IF cmd_tokens[1] = W_lexeme THEN CmdToLexemeSearch(Tail(cmd_tokens))
    ELSE Raise("ValueError", "Syntax: unknown command type", cmd_tokens[1])

\* _is_cmd, src/query_string_parsing.py:255-256
IsCmd(token) == token \notin {S_amp, S_bar}

----------------------------------------------------------------------------
(* The parser, src/query_string_parsing.py:259-340.  An element of a token  *)
(* list is a str, a nested list, or an already built query.                 *)

StrEl(s) == [t |-> "str", v |-> s]
ListEl(l) == [t |-> "list", v |-> l]
QueryEl(q) == [t |-> "query", v |-> q]

IsStr(el, s) == el.t = "str" /\ el.v = s

\* token.startswith('(')
StartsWithOpen(el) == el.t = "str" /\ Len(el.v) > 0 /\ el.v[1] = "("

\* the inner while loop of _replace_parens_with_sublists (lines 268-278):
\* the first position j >= i holding the closing marker, 0 when there is none
FindClosing(toks, i, closing) ==
    LET hits == {j \in i..Len(toks) : IsStr(toks[j], closing)} IN
    IF hits = {} THEN 0 ELSE SetMin(hits)

\* _replace_parens_with_sublists (lines 259-282), from position i (1-based)
RECURSIVE ReplaceFrom(_, _, _)
ReplaceFrom(toks, i, result) ==
    IF i > Len(toks) THEN Return(result)
    ELSE IF StartsWithOpen(toks[i]) THEN
        LET paren_num == ParseInt(Tail(toks[i].v))
            closing == <<")">> \o DecStr(paren_num)
            j == FindClosing(toks, i, closing)
        IN
        IF paren_num < 0 THEN Raise("ValueError", "invalid literal for int()", toks[i].v)
        ELSE IF j = 0 THEN ReplaceFrom(toks, i + 1, result)
        ELSE IF i + 1 = j THEN
            Raise("ValueError", "Syntax: cannot have empty parentheses.", <<>>)
        ELSE
            LET sub == ReplaceFrom(SubSeq(toks, i + 1, j - 1), 1, <<>>) IN
            IF ~sub.ok THEN sub
            ELSE ReplaceFrom(toks, j + 1, Append(result, ListEl(sub.v)))
    ELSE ReplaceFrom(toks, i + 1, Append(result, toks[i]))

\* a variant that drops the markers and keeps the group's tokens in line
ReplaceParens_Flatten(toks) ==
    Return(SelectSeq(toks, LAMBDA el : ~(el.t = "str" /\ Len(el.v) > 0
                                          /\ el.v[1] \in {"(", ")"})))

ReplaceParensWithSublists(toks) == ReplaceFrom(toks, 1, <<>>)

\* the positions (1-based) of the operator op in a list (lines 305, 318)
Occurrences(list, op) == {i \in 1..Len(list) : IsStr(list[i], op)}

\* the order in which the occurrences are folded (lines 306, 319): the
\* next one to fold among those left
NextOccurrence(occ) == SetMax(occ)

\* a variant that folds every OR before any AND
FoldOrder_OrFirst == <<S_bar, S_amp>>

\* the operator folded by the first loop (lines 305-315) and by the second
\* (lines 318-328)
FoldOrder == <<S_amp, S_bar>>

RECURSIVE ArgumentToQuery(_), TokensListToQuery(_), FoldOperator(_, _, _)

\* _argument_to_query (lines 285-295)
ArgumentToQuery(arg) ==
    IF arg.t = "query" THEN Return(arg.v)
    ELSE IF arg.t = "str" /\ IsCmd(arg.v) THEN CmdToQuery(arg.v)
    ELSE IF arg.t = "list" THEN TokensListToQuery(arg.v)
    ELSE Raise("ValueError", "Syntax: unexpected argument to op", arg.v)

\* one of the two folding loops of _tokens_list_to_query (lines 306-315 and
\* 319-328) over the occurrences occ still to fold
FoldOperator(list, occ, op) ==
    IF occ = {} THEN Return(list)
    ELSE
        LET i == NextOccurrence(occ) IN
        IF i = 1 \/ i = Len(list) + 1 THEN
            Raise("ValueError", "Syntax: no argument to &.", <<>>)
        ELSE
            LET lhs == ArgumentToQuery(list[i - 1]) IN
            IF ~lhs.ok THEN lhs
            ELSE IF i + 1 > Len(list) THEN
                Raise("IndexError", "list index out of range", <<>>)
            ELSE
                LET rhs == ArgumentToQuery(list[i + 1]) IN
                IF ~rhs.ok THEN rhs
                ELSE
                    LET node == IF op = S_amp THEN AndQuery(lhs.v, rhs.v)
                                ELSE OrQuery(lhs.v, rhs.v)
                    IN FoldOperator(SubSeq(list, 1, i - 2) \o <<QueryEl(node)>>
                                        \o SubSeq(list, i + 2, Len(list)),
                                    occ \ {i}, op)

\* _tokens_list_to_query (lines 298-333)
TokensListToQuery(toks) ==
    LET no_parens == ReplaceParensWithSublists(toks) IN
    IF ~no_parens.ok THEN no_parens
    ELSE
        LET ands == FoldOperator(no_parens.v,
                                 Occurrences(no_parens.v, FoldOrder[1]), FoldOrder[1])
        IN
        IF ~ands.ok THEN ands
        ELSE
            LET ors == FoldOperator(ands.v, Occurrences(ands.v, FoldOrder[2]),
                                    FoldOrder[2])
            IN
            IF ~ors.ok THEN ors
            ELSE IF Len(ors.v) # 1 THEN
                Raise("ValueError", "Bug: Something's on fire. Tell Andrew!!!", <<>>)
            ELSE ArgumentToQuery(ors.v[1])

\* to_query (lines 336-340)
ToQuery(c) ==
    LET t == Tokenize(c) IN
    IF t.outcome # "returned" THEN Raise(t.outcome, t.outcome, <<>>)
    ELSE TokensListToQuery([k \in 1..Len(t.tokens) |-> StrEl(t.tokens[k])])

----------------------------------------------------------------------------
(* Values of the variables a specification does not use. *)

NotCalled == Raise("none", "not called", <<>>)

TokIdle ==
    /\ command = <<>> /\ idx = 0 /\ state = "DEFAULT_STATE" /\ tokens = <<>>
    /\ paren_depth = 0 /\ command_str = <<>> /\ outcome = "idle"

ParseIdle == parsed = NotCalled

SearchIdle == heap = <<>> /\ query = None /\ output_data = 0 /\ calls = 0

\* no comparison made yet
NotCompared == [done |-> FALSE]

RefIdle == ref_self = None /\ ref_other = None /\ ref_cmp = NotCompared

\* Python's None where the model holds a reference object
NoReference == [is_none |-> TRUE]

ConIdle ==
    /\ con_a = NoReference /\ con_b = NoReference /\ con_c = NoReference
    /\ con_res = NotCompared

StrIdle == str_in = <<>> /\ str_out = NotCalled

DecIdle == dec_set = "none" /\ dec_data = <<>> /\ dec_out = NotCalled

\* _cmd_to_lexeme_search not entered
NoFlagScan == [entered |-> FALSE]

ScanIdle == lex_scan = NoFlagScan

LibIdle == ConIdle /\ StrIdle /\ DecIdle /\ ScanIdle

----------------------------------------------------------------------------
(* SpecTokenize: _tokenize_command_str run one loop iteration at a time on  *)
(* every concatenation of at most MaxPieces pieces.                         *)

TokPieces ==
    {S_and, S_or, S_amp, S_bar, <<" ">>, <<"(">>, <<")">>, <<"[">>, <<"]">>, <<"x">>}

RECURSIVE PieceStrings(_, _)
PieceStrings(pieces, n) ==
    IF n = 0 THEN {<<>>}
    ELSE LET S == PieceStrings(pieces, n - 1) IN
         S \cup {s \o p : s \in S, p \in pieces}

TokInputs == PieceStrings(TokPieces, MaxPieces)

Cur == TokState(command, idx, state, tokens, paren_depth, command_str, outcome)

Become(t) ==
    /\ command' = t.command
    /\ idx' = t.idx
    /\ state' = t.state
    /\ tokens' = t.tokens
    /\ paren_depth' = t.paren_depth
    /\ command_str' = t.command_str
    /\ outcome' = t.outcome

TokInit ==
    /\ command \in TokInputs
    /\ idx = 0 /\ state = "DEFAULT_STATE" /\ tokens = <<>>
    /\ paren_depth = 0 /\ command_str = <<>> /\ outcome = "running"
    /\ ParseIdle /\ SearchIdle /\ RefIdle /\ LibIdle

\* lines 24-42
ScanDefault ==
    /\ outcome = "running" /\ idx < Len(command) /\ state = "DEFAULT_STATE"
    /\ Become(DefaultStep(Cur))
    /\ UNCHANGED <<parsed, searchVars, refVars, libVars>>

\* lines 24, 44-79
ScanCommand ==
    /\ outcome = "running" /\ idx < Len(command) /\ state = "PARSING_COMMAND"
    /\ Become(CommandStep(Cur))
    /\ UNCHANGED <<parsed, searchVars, refVars, libVars>>

\* lines 81-86
TokenizeFinish ==
    /\ outcome = "running" /\ ~(idx < Len(command))
    /\ Become(FinishStep(Cur))
    /\ UNCHANGED <<parsed, searchVars, refVars, libVars>>

TokNext == ScanDefault \/ ScanCommand \/ TokenizeFinish

SpecTokenize == TokInit /\ [][TokNext]_vars

----------------------------------------------------------------------------
(* Grouping in an input string and in a token list. *)

IsOpenChar(c) == c \in {"(", "["}
IsCloseChar(c) == c \in {")", "]"}

\* the number of groups open after the first k characters of s
DepthAt(s, k) ==
    Cardinality({i \in 1..k : IsOpenChar(s[i])})
      - Cardinality({i \in 1..k : IsCloseChar(s[i])})

\* the opening delimiter that the closing delimiter at position k closes
OpenerOf(s, k) ==
    SetMax({j \in 1..(k - 1) : IsOpenChar(s[j]) /\ DepthAt(s, j - 1) = DepthAt(s, k)})

\* never more closed than opened, all closed at the end, and every group
\* closed by the delimiter of its own kind
ProperlyNested(s) ==
    /\ \A k \in 1..Len(s) : DepthAt(s, k) >= 0
    /\ DepthAt(s, Len(s)) = 0
    /\ \A k \in 1..Len(s) : IsCloseChar(s[k]) =>
          <<s[OpenerOf(s, k)], s[k]>> \in {<<"(", ")">>, <<"[", "]">>}

\* a closing delimiter with no group open, or a group still open at the end
Unbalanced(s) ==
    \/ \E k \in 1..Len(s) : IsCloseChar(s[k]) /\ DepthAt(s, k - 1) = 0
    \/ DepthAt(s, Len(s)) > 0

GroupCount(s) == Cardinality({i \in 1..Len(s) : IsOpenChar(s[i])})

IsOpenMarker(tok) == Len(tok) > 1 /\ tok[1] = "(" /\ ParseInt(Tail(tok)) >= 0
IsCloseMarker(tok) == Len(tok) > 1 /\ tok[1] = ")" /\ ParseInt(Tail(tok)) >= 0

OpenMarkers(toks) == {k \in 1..Len(toks) : IsOpenMarker(toks[k])}
CloseMarkers(toks) == {k \in 1..Len(toks) : IsCloseMarker(toks[k])}

\* the number of groups enclosing position k of a token list
MarkerDepthBefore(toks, k) ==
    Cardinality({j \in OpenMarkers(toks) : j < k})
      - Cardinality({j \in CloseMarkers(toks) : j < k})

\* every marker is numbered with the number of groups enclosing its group,
\* so a closing marker carries the number of the opening marker it closes
MarkersMatch(toks) ==
    /\ \A k \in OpenMarkers(toks) :
          ParseInt(Tail(toks[k])) = MarkerDepthBefore(toks, k)
    /\ \A k \in CloseMarkers(toks) :
          ParseInt(Tail(toks[k])) = MarkerDepthBefore(toks, k) - 1

InvalidParens == "ValueError: Invalid parentheses in string."

\* C8: for every input whose ( ) [ ] delimiters are properly nested with N
\* groups, the tokenizer succeeds and emits exactly N opening and N closing
\* markers, each closing marker numbered like the opening marker it closes.
C8_NestedInputTokenizes ==
    (outcome \notin {"running", "idle"} /\ ProperlyNested(command)) =>
        /\ outcome = "returned"
        /\ Cardinality(OpenMarkers(tokens)) = GroupCount(command)
        /\ Cardinality(CloseMarkers(tokens)) = GroupCount(command)
        /\ MarkersMatch(tokens)

\* C9: for every input in which a closing delimiter appears with no group
\* open, or a group is still open at the end, the tokenizer raises the
\* unbalanced-parenthesis error and returns no token list.
C9_UnbalancedRaises ==
    (outcome \notin {"running", "idle"} /\ Unbalanced(command)) =>
        outcome = InvalidParens

IsSymbolChar(c) == c \in {"&", "|"}

HasSymbolChar(s) == \E j \in 1..Len(s) : IsSymbolChar(s[j])

HasNoDelimiter(s) == \A i \in 1..Len(s) : ~IsOpenChar(s[i]) /\ ~IsCloseChar(s[i])

WordSet(s) == {Split(s)[k] : k \in 1..Len(Split(s))}

\* C10: `X and Y` tokenizes to [X, '&', Y]; a command in which and/or is
\* only part of a longer word is emitted as one unsplit command token, with
\* no '&' or '|' token and no character of a word lost.
C10_OperatorOnlyAsWholeWord ==
    (/\ outcome \notin {"running", "idle"}
     /\ HasNoDelimiter(command) /\ ~HasSymbolChar(command)) =>
        /\ (Split(command) # <<>> /\ WordSet(command) \cap {S_and, S_or} = {}) =>
              /\ outcome = "returned"
              /\ Len(tokens) = 1
              /\ Split(tokens[1]) = Split(command)
        /\ \A k \in 2..(Len(Split(command)) - 1) :
              LET w == Split(command)
                  X == SubSeq(w, 1, k - 1)
                  Y == SubSeq(w, k + 1, Len(w))
              IN (/\ w[k] = S_and
                  /\ \A j \in 1..Len(w) : j # k => w[j] \notin {S_and, S_or})
                 => /\ outcome = "returned"
                    /\ Len(tokens) = 3
                    /\ tokens[1] = Join(X, <<" ">>)
                    /\ tokens[2] = S_amp
                    /\ Split(tokens[3]) = Y

----------------------------------------------------------------------------
(* SpecParse: to_query called on every query string of at most MaxLeaves    *)
(* leaf commands joined by ` and ` / ` or `, with at most MaxGroups groups, *)
(* nested or side by side.  The k-th leaf command of a query is Leaf(k).    *)

\* a query has at most MaxLeaves leaf commands
MaxLeaves == 3
\* a query has at most MaxGroups groups
MaxGroups == 2

LeafLetters == <<"x", "y", "z", "w", "v", "u", "t", "s">>

\* the k-th leaf command: every second one carries a flag
Leaf(k) ==
    W_lexeme \o <<" ", LeafLetters[k]>>
      \o (IF k % 2 = 0 THEN <<" ">> \o W_flag_case \o <<" ">> \o W_genitive ELSE <<>>)

\* the query Leaf(k) stands for
LeafQuery(k) ==
    IF k % 2 = 0
    THEN [LexemeQuery(<<LeafLetters[k]>>) EXCEPT !.filters["case"] = W_genitive]
    ELSE LexemeQuery(<<LeafLetters[k]>>)

Sp == <<" ">>
AndWord == Sp \o S_and \o Sp
OrWord == Sp \o S_or \o Sp
OpWords == {AndWord, OrWord}

\* groups are written with brackets and with parentheses
Delim(g) == IF g % 2 = 1 THEN <<"[", "]">> ELSE <<"(", ")">>

RECURSIVE Operand(_, _, _), Chain(_, _, _)

\* the single operands with n leaves and g groups whose first leaf is
\* Leaf(first): a leaf, or a group around a chain
Operand(n, g, first) ==
    (IF n = 1 /\ g = 0 THEN {Leaf(first)} ELSE {})
    \cup (IF g > 0
          THEN {<<Delim(g)[1]>> \o c \o <<Delim(g)[2]>> : c \in Chain(n, g - 1, first)}
          ELSE {})

\* the chains of operands with n leaves and g groups in all
Chain(n, g, first) ==
    Operand(n, g, first)
    \cup UNION {{o \o op \o c : o \in Operand(k[1], k[2], first), op \in OpWords,
                                c \in Chain(n - k[1], g - k[2], first + k[1])}
                : k \in (1..(n - 1)) \X (0..g)}

QueryInputs == UNION {Chain(n[1], n[2], 1) : n \in (1..MaxLeaves) \X (0..MaxGroups)}

ParseInit ==
    /\ command \in QueryInputs
    /\ idx = 0 /\ state = "DEFAULT_STATE" /\ tokens = <<>>
    /\ paren_depth = 0 /\ command_str = <<>> /\ outcome = "running"
    /\ parsed = NotCalled
    /\ SearchIdle /\ RefIdle /\ LibIdle

\* to_query(command), lines 336-340
CallToQuery ==
    /\ parsed = NotCalled
    /\ Become(Tokenize(command))
    /\ parsed' = ToQuery(command)
    /\ UNCHANGED <<searchVars, refVars, libVars>>

ParseNext == CallToQuery

SpecParse == ParseInit /\ [][ParseNext]_vars

----------------------------------------------------------------------------
(* Precedence and grouping. *)

Flat3(op1, op2) == Leaf(1) \o op1 \o Leaf(2) \o op2 \o Leaf(3)

RECURSIVE NoOrUnderAnd(_), NoOr(_)
NoOr(q) ==
    CASE q.type = "OrQuery" -> FALSE
      [] q.type = "AndQuery" -> NoOr(q.lhs) /\ NoOr(q.rhs)
      [] OTHER -> TRUE

NoOrUnderAnd(q) ==
    CASE q.type = "OrQuery" -> NoOrUnderAnd(q.lhs) /\ NoOrUnderAnd(q.rhs)
      [] q.type = "AndQuery" -> NoOr(q.lhs) /\ NoOr(q.rhs)
      [] OTHER -> TRUE

\* C1: AND binds tighter than OR: `A and B or C` yields
\* OrQuery(AndQuery(A,B), C), `A or B and C` yields OrQuery(A, AndQuery(B,C)),
\* and in a query without groups no OrQuery ends up beneath an AndQuery.
C1_AndBindsTighter ==
    parsed # NotCalled =>
        /\ command = Flat3(AndWord, OrWord) =>
              parsed = Return(OrQuery(AndQuery(LeafQuery(1), LeafQuery(2)),
                                      LeafQuery(3)))
        /\ command = Flat3(OrWord, AndWord) =>
              parsed = Return(OrQuery(LeafQuery(1),
                                      AndQuery(LeafQuery(2), LeafQuery(3))))
        /\ HasNoDelimiter(command) => parsed.ok /\ NoOrUnderAnd(parsed.v)

C1_Witness ==
    /\ command = Flat3(AndWord, OrWord)
    /\ parsed # NotCalled /\ parsed.ok /\ parsed.v.type = "OrQuery"

\* the closing delimiter of the group opened at position i
CloserOf(s, i) ==
    SetMin({j \in (i + 1)..Len(s) : IsCloseChar(s[j]) /\ DepthAt(s, j) = DepthAt(s, i - 1)})

GroupOpeners(s) == {i \in 1..Len(s) : IsOpenChar(s[i])}

\* a leaf command that occurs in no input
LeafG == W_lexeme \o <<" ", "g">>
QueryG == LexemeQuery(<<"g">>)

\* the query string with the group opened at i replaced by the leaf LeafG
WithoutGroup(s, i) ==
    SubSeq(s, 1, i - 1) \o LeafG \o SubSeq(s, CloserOf(s, i) + 1, Len(s))

GroupContents(s, i) == SubSeq(s, i + 1, CloserOf(s, i) - 1)

\* the tree q with its leaf QueryG replaced by the tree sub
RECURSIVE Graft(_, _)
Graft(q, sub) ==
    IF q = QueryG THEN sub
    ELSE IF q.type \in {"AndQuery", "OrQuery"}
         THEN [q EXCEPT !.lhs = Graft(q.lhs, sub), !.rhs = Graft(q.rhs, sub)]
         ELSE q

GroupedExample == <<"[">> \o Leaf(1) \o OrWord \o Leaf(2) \o <<"]">> \o AndWord \o Leaf(3)

\* C7: grouping overrides precedence: `[A or B] and C` yields
\* AndQuery(OrQuery(A,B), C), and every group, at any depth, is parsed as one
\* operand whose sub-tree is the parse of the group's contents: the tree is
\* that of the query with a leaf in the group's place, with the tree of the
\* group's contents grafted onto that leaf.
C7_GroupIsOneOperand ==
    parsed # NotCalled =>
        /\ command = GroupedExample =>
              parsed = Return(AndQuery(OrQuery(LeafQuery(1), LeafQuery(2)),
                                       LeafQuery(3)))
        /\ \A i \in GroupOpeners(command) :
              LET outer == ToQuery(WithoutGroup(command, i))
                  inner == ToQuery(GroupContents(command, i))
              IN /\ parsed.ok /\ outer.ok /\ inner.ok
                 /\ parsed.v = Graft(outer.v, inner.v)

C7_Witness ==
    /\ command = GroupedExample
    /\ parsed # NotCalled /\ parsed.ok /\ parsed.v.type = "AndQuery"

----------------------------------------------------------------------------
(* Accent stripping and lexeme matching, src/helpers.py:81-83 and           *)
(* src/text_query.py:86-92.  "o_acute" names the precomposed accented       *)
(* letter and "acute" the combining accent (category Mn).                   *)

\* unicodedata.normalize('NFD', c) for one character
Decompose(c) ==
    IF c = "o_acute" THEN <<"o", "acute">> ELSE <<c>>

\* unicodedata.category(c) = 'Mn'
IsMn(c) == c = "acute"

RECURSIVE NFD(_)
NFD(s) == IF s = <<>> THEN <<>> ELSE Decompose(Head(s)) \o NFD(Tail(s))

\* strip_accents (helpers.py:81-83)
StripAccents(s) == SelectSeq(NFD(s), LAMBDA c : ~IsMn(c))

\* re.match(pattern, s) for a pattern of literal characters and '.': the
\* pattern matches a prefix of s
ReMatch(pattern, s) ==
    /\ Len(pattern) <= Len(s)
    /\ \A i \in 1..Len(pattern) : pattern[i] = "." \/ pattern[i] = s[i]

----------------------------------------------------------------------------
(* Query evaluation, src/text_query.py.  A Python list has an identity: it  *)
(* is a position of heap, and heap[id] is its current contents.  A record's *)
(* parent_set is the identity of the list it was loaded into.               *)

Alloc(h, list) == [heap |-> Append(h, list), ret |-> Len(h) + 1]

Min2(a, b) == IF a < b THEN a ELSE b
Max2(a, b) == IF a > b THEN a ELSE b

\* list[a:b] with Python's treatment of negative and out-of-range bounds
PySlice(list, a, b) ==
    LET L == Len(list)
        norm(x) == IF x < 0 THEN Max2(x + L, 0) ELSE Min2(x, L)
    IN SubSeq(list, norm(a) + 1, norm(b))

\* a variant that treats a missing key as a wildcard
FilterKeeps_Wildcard(row, key, value) ==
    key \notin DOMAIN row.morph_code \/ value = row.morph_code[key]

\* the condition of each filter of LexemeQuery.post_winnow (lines 98-127)
FilterKeeps(row, key, value) ==
    key \in DOMAIN row.morph_code /\ value = row.morph_code[key]

\* LexemeQuery.winnow (lines 86-92)
LexemeWinnow(q, x) ==
    LET stripped == [k \in 1..Len(x.lexeme) |-> StripAccents(x.lexeme[k])] IN
    \E k \in 1..Len(stripped) : ReMatch(q.lexeme, stripped[k])

\* LexemeQuery.post_winnow (lines 94-129): the filters that are set, in turn
RECURSIVE LexemePostWinnow(_, _, _)
LexemePostWinnow(q, dataset, k) ==
    IF k > Len(Fields) THEN dataset
    ELSE IF q.filters[Fields[k]] # None THEN
        LexemePostWinnow(q,
            SelectSeq(dataset, LAMBDA row : FilterKeeps(row, Fields[k], q.filters[Fields[k]])),
            k + 1)
    ELSE LexemePostWinnow(q, dataset, k + 1)

\* MorphologySearch.winnow (lines 142-143)
MorphologyWinnow(q, x) ==
    q.property \in DOMAIN x.morph_code /\ x.morph_code[q.property] = q.value

\* WinnowSearch.search (lines 56-59) for its two subclasses
WinnowSearch(q, h, d) ==
    IF q.type = "LexemeQuery" THEN
        Alloc(h, LexemePostWinnow(q, SelectSeq(h[d], LAMBDA x : LexemeWinnow(q, x)), 1))
    ELSE
        Alloc(h, SelectSeq(h[d], LAMBDA x : MorphologyWinnow(q, x)))

\* a variant whose start index is not clamped at 0
AnteStart_Unclamped(i, number) == i - number

\* AnteQuery.search lines 164-166
AnteStart(i, number) == IF i - number < 0 THEN 0 ELSE i - number

\* PostQuery.search lines 190-192
PostEnd(i, number, len) == IF i + number >= len THEN len - 1 ELSE i + number

\* the loop of AnteQuery.search (lines 160-168) from the k-th word on
RECURSIVE AnteLoop(_, _, _, _, _)
AnteLoop(number, h, dataset, k, result) ==
    IF k > Len(dataset) THEN result
    ELSE LET word == dataset[k]
             i == word.word_index
             parent_set == h[word.parent_set]
         IN AnteLoop(number, h, dataset, k + 1,
                     result \o PySlice(parent_set, AnteStart(i, number), i))

\* a variant that hands back its input list when there is nothing to look up
AnteSearch_ReturnsInput(q, h, d) ==
    IF q.number = 0 THEN [heap |-> h, ret |-> d]
    ELSE Alloc(h, AnteLoop(q.number, h, h[d], 1, <<>>))

\* AnteQuery.search (lines 155-169)
AnteSearch(q, h, d) ==
    IF q.number = 0 THEN Alloc(h, <<>>)
    ELSE Alloc(h, AnteLoop(q.number, h, h[d], 1, <<>>))

\* the loop of PostQuery.search (lines 186-194) from the k-th word on
RECURSIVE PostLoop(_, _, _, _, _)
PostLoop(number, h, dataset, k, result) ==
    IF k > Len(dataset) THEN result
    ELSE LET word == dataset[k]
             i == word.word_index
             parent_set == h[word.parent_set]
             end_idx == PostEnd(i, number, Len(parent_set))
         IN PostLoop(number, h, dataset, k + 1,
                     result \o PySlice(parent_set, i + 1, end_idx + 1))

\* PostQuery.search (lines 181-195)
PostSearch(q, h, d) ==
    IF q.number = 0 THEN Alloc(h, <<>>)
    ELSE Alloc(h, PostLoop(q.number, h, h[d], 1, <<>>))

RECURSIVE Search(_, _, _)

\* a variant that searches both operands in the dataset and intersects
AndSearch_Intersect(q, h, d) ==
    LET l == Search(q.lhs, h, d)
        r == Search(q.rhs, l.heap, d)
    IN Alloc(r.heap, SelectSeq(l.heap[l.ret],
                               LAMBDA x : \E k \in 1..Len(r.heap[r.ret]) : r.heap[r.ret][k] = x))

\* AndQuery.search (lines 26-31)
AndSearch(q, h, d) ==
    LET lhs_result == Search(q.lhs, h, d)
    IN Search(q.rhs, lhs_result.heap, lhs_result.ret)

\* a variant that leaves out the records the left result already holds
OrSearch_Dedup(q, h, d) ==
    LET l == Search(q.lhs, h, d)
        r == Search(q.rhs, l.heap, d)
        fresh == SelectSeq(r.heap[r.ret],
                           LAMBDA x : ~\E k \in 1..Len(r.heap[l.ret]) : r.heap[l.ret][k] = x)
    IN [heap |-> [r.heap EXCEPT ![l.ret] = @ \o fresh], ret |-> l.ret]

\* OrQuery.search (lines 44-50): extend() changes the left result in place
OrSearch(q, h, d) ==
    LET lhs_result == Search(q.lhs, h, d)
        rhs_result == Search(q.rhs, lhs_result.heap, d)
    IN [heap |-> [rhs_result.heap EXCEPT
                    ![lhs_result.ret] = @ \o rhs_result.heap[rhs_result.ret]],
        ret |-> lhs_result.ret]

\* query.search(dataset): heap h, dataset the list d; gives the heap after
\* the call and the identity of the list returned
Search(q, h, d) ==
    CASE q.type \in {"LexemeQuery", "MorphologySearch"} -> WinnowSearch(q, h, d)
      [] q.type = "AndQuery" -> AndSearch(q, h, d)
      [] q.type = "OrQuery" -> OrSearch(q, h, d)
      [] q.type = "AnteQuery" -> AnteSearch(q, h, d)
      [] q.type = "PostQuery" -> PostSearch(q, h, d)

----------------------------------------------------------------------------
(* SpecSearch: main_loop's query.search(search_data)                        *)
(* (src/scripture_searcher.py:215-227) on every corpus of one LXX word and  *)
(* MaxWords GNT words, for every query tree of at most two levels and some  *)
(* of three and four.                                                       *)

\* gnt_data holds MaxWords words
MaxWords == 3
\* the proximity queries reach at most MaxReach words
MaxReach == 2
\* search is called at most MaxCalls times on the same query and corpus
MaxCalls == 2

Lo == <<"l", "o">>
LoAcute == <<"l", "o_acute">>
Rh == <<"r">>

\* the words a corpus is made of: lexeme candidates and decoded morph_code
NounGenitive ==
    [lexeme |-> <<LoAcute>>,
     morph_code |-> ("part_of_speech" :> <<"noun">>) @@ ("case" :> W_genitive)
                      @@ ("number" :> W_singular)]
NounNominative ==
    [lexeme |-> <<Lo>>,
     morph_code |-> ("part_of_speech" :> <<"noun">>) @@ ("case" :> W_nominative)
                      @@ ("number" :> W_singular)]
VerbAorist ==
    [lexeme |-> <<Rh, LoAcute>>,
     morph_code |-> ("part_of_speech" :> <<"verb">>) @@ ("tense" :> W_aorist)]

Kinds == {NounGenitive, NounNominative, VerbAorist}

LxxId == 1
GntId == 2
SearchDataId == 3

WordOf(kind, i, ps, book) ==
    [word_index |-> i, parent_set |-> ps, lexeme |-> kind.lexeme,
     morph_code |-> kind.morph_code, Book |-> book]

\* json.load of the two files, each word's parent_set set to its own list
\* (lines 216-223), and search_data = lxx_data + gnt_data (line 225)
LoadedHeap(lk, gk) ==
    LET lxx_data == [k \in 1..Len(lk) |-> WordOf(lk[k], k - 1, LxxId, "Genesis")]
        gnt_data == [k \in 1..Len(gk) |->
                        WordOf(gk[k], k - 1, GntId, IF k = 1 THEN "Matthew" ELSE "Mark")]
    IN <<lxx_data, gnt_data, lxx_data \o gnt_data>>

LexemeFilter(lexeme, field, value) ==
    [LexemeQuery(lexeme) EXCEPT !.filters[field] = value]

LeafQueries ==
    {LexemeQuery(Lo), LexemeQuery(LoAcute), LexemeFilter(Lo, "case", W_genitive),
     LexemeFilter(Lo, "tense", W_aorist), MorphologySearch("case", W_genitive)}
    \cup {AnteQuery(n) : n \in 0..MaxReach}
    \cup {PostQuery(n) : n \in 0..MaxReach}

\* the operands of the trees of three levels
InnerQueries == {LexemeQuery(Lo), AnteQuery(1), WindowQuery(1, 1)}

Queries ==
    LeafQueries
    \cup {AndQuery(l, r) : l \in LeafQueries, r \in LeafQueries}
    \cup {OrQuery(l, r) : l \in LeafQueries, r \in LeafQueries}
    \cup UNION {{OrQuery(OrQuery(a, b), c), AndQuery(OrQuery(a, b), c),
                 OrQuery(a, AndQuery(b, c))}
                : a \in InnerQueries, b \in InnerQueries, c \in InnerQueries}

SearchInit ==
    /\ TokIdle /\ ParseIdle /\ RefIdle /\ LibIdle
    /\ \E lk \in [1..1 -> Kinds], gk \in [1..MaxWords -> Kinds] :
          heap = LoadedHeap(lk, gk)
    /\ query \in Queries
    /\ output_data = 0
    /\ calls = 0

\* output_data = query.search(search_data), line 227
CallSearch ==
    /\ calls < MaxCalls
    /\ LET r == Search(query, heap, SearchDataId) IN
          /\ heap' = r.heap
          /\ output_data' = r.ret
    /\ calls' = calls + 1
    /\ UNCHANGED <<tokVars, parsed, query, refVars, libVars>>

SearchNext == CallSearch

SpecSearch == SearchInit /\ [][SearchNext]_vars

----------------------------------------------------------------------------
(* What a search returned, against the corpus it was called on. *)

Called == calls > 0

\* the lists main_loop loaded: lxx_data, gnt_data, search_data
Corpus == SubSeq(heap, 1, SearchDataId)

Result == heap[output_data]

\* the contents of the list a search returned
ValueOf(r) == r.heap[r.ret]

\* what q.search(search_data) returns on the loaded corpus
OnCorpus(q) == ValueOf(Search(q, Corpus, SearchDataId))

Count(x, list) == Cardinality({k \in 1..Len(list) : list[k] = x})

Holds(list, x) == \E k \in 1..Len(list) : list[k] = x

RECURSIVE ConcatAll(_)
ConcatAll(lists) ==
    IF lists = <<>> THEN <<>> ELSE Head(lists) \o ConcatAll(Tail(lists))

C3_OrKeepsDuplicates ==
    (Called /\ query.type = "OrQuery") =>
        LET lv == OnCorpus(query.lhs)
            rv == OnCorpus(query.rhs)
        IN /\ Result = lv \o rv
           /\ \A k \in 1..Len(Corpus[SearchDataId]) :
                 LET x == Corpus[SearchDataId][k] IN
                 /\ (Count(x, lv) = 1 /\ Count(x, rv) = 1) => Count(x, Result) = 2
                 /\ (Count(x, lv) + Count(x, rv) = 1) => Count(x, Result) = 1

C3_Witness ==
    /\ Called /\ query.type = "OrQuery"
    /\ query.lhs.type = "LexemeQuery" /\ query.rhs.type = "MorphologySearch"
    /\ \E k \in 1..Len(Result) :
          /\ Holds(OnCorpus(query.lhs), Result[k])
          /\ Holds(OnCorpus(query.rhs), Result[k])
          /\ Count(Result[k], Result) = 2

\* the proximity node of a query that ends in one, and the list it is given
EndsInProximity(q) ==
    \/ q.type \in {"AnteQuery", "PostQuery"}
    \/ q.type = "AndQuery" /\ q.rhs.type \in {"AnteQuery", "PostQuery"}

ProximityNode(q) == IF q.type = "AndQuery" THEN q.rhs ELSE q

ProximityInput(q) ==
    IF q.type = "AndQuery" THEN OnCorpus(q.lhs) ELSE Corpus[SearchDataId]

\* the records at parent_set positions max(0, i-n) .. i-1 (AnteQuery) or
\* i+1 .. min(L-1, i+n) (PostQuery) of the record w, in ascending position
Window(type, w, n) ==
    LET P == heap[w.parent_set]
        i == w.word_index
        lo == Max2(0, i - n)
        hi == Min2(Len(P) - 1, i + n)
    IN IF type = "AnteQuery"
       THEN [j \in 1..(i - lo) |-> P[lo + j]]
       ELSE [j \in 1..(hi - i) |-> P[i + 1 + j]]

\* C4: proximity windows are positional and clamped: each input record
\* contributes the records at positions max(0, i-n) .. i-1 (AnteQuery) or
\* i+1 .. min(L-1, i+n) (PostQuery) of its parent_set, the contributions
\* concatenated in input order; a record is never in its own contribution;
\* with n = 0 the result is empty.
C4_WindowsPositionalClamped ==
    (Called /\ EndsInProximity(query)) =>
        LET node == ProximityNode(query)
            input == ProximityInput(query)
        IN /\ Result = ConcatAll([k \in 1..Len(input) |->
                                    Window(node.type, input[k], node.number)])
           /\ \A k \in 1..Len(input) :
                 ~Holds(Window(node.type, input[k], node.number), input[k])
           /\ node.number = 0 => Result = <<>>

C4_Witness ==
    /\ Called /\ query.type = "AndQuery" /\ query.rhs.type = "AnteQuery"
    /\ \E k \in 1..Len(OnCorpus(query.lhs)) :
          LET w == OnCorpus(query.lhs)[k] IN
          /\ w.word_index > 0
          /\ w.word_index < query.rhs.number
          /\ Len(Window("AnteQuery", w, query.rhs.number)) = w.word_index
    /\ Len(Result) > 0

\* the node that filters last in a query, when it is a winnowing one
EndsInWinnow(q) ==
    \/ q.type \in {"LexemeQuery", "MorphologySearch"}
    \/ q.type = "AndQuery" /\ q.rhs.type \in {"LexemeQuery", "MorphologySearch"}

WinnowNode(q) == IF q.type = "AndQuery" THEN q.rhs ELSE q

\* the (key, value) pairs a winnowing node asks for
Asked(node) ==
    IF node.type = "MorphologySearch" THEN {<<node.property, node.value>>}
    ELSE {<<f, node.filters[f]>> : f \in {g \in FieldSet : node.filters[g] # None}}

\* C5: an absent grammatical key never matches: LexemeQuery with a filter
\* set and MorphologySearch return a record only if its morph_code has that
\* key with exactly the requested value.
C5_AbsentKeyNeverMatches ==
    (Called /\ EndsInWinnow(query)) =>
        \A k \in 1..Len(Result) : \A kv \in Asked(WinnowNode(query)) :
            /\ kv[1] \in DOMAIN Result[k].morph_code
            /\ Result[k].morph_code[kv[1]] = kv[2]

C5_Witness ==
    /\ Called /\ query.type = "LexemeQuery" /\ query.filters["case"] # None
    /\ Len(Result) > 0
    /\ \E k \in 1..Len(Corpus[SearchDataId]) :
          LET x == Corpus[SearchDataId][k] IN
          /\ LexemeWinnow(query, x)
          /\ "case" \notin DOMAIN x.morph_code
          /\ ~Holds(Result, x)

\* C6: lexeme matching ignores accents on both sides:
\* LexemeQuery(q).search(D) equals LexemeQuery(strip_accents(q)).search(D),
\* and a record matches when any one of its lexeme candidates matches.
C6_AccentsIgnoredOnBothSides ==
    (Called /\ query.type = "LexemeQuery") =>
        LET plain == [query EXCEPT !.lexeme = StripAccents(@)] IN
        /\ Result = OnCorpus(plain)
        /\ \A k \in 1..Len(Corpus[SearchDataId]) :
              LET x == Corpus[SearchDataId][k] IN
              (\A f \in FieldSet : query.filters[f] = None) =>
                  (Holds(Result, x) <=>
                      \E c \in 1..Len(x.lexeme) :
                          ReMatch(StripAccents(query.lexeme), StripAccents(x.lexeme[c])))

----------------------------------------------------------------------------
(* The operator symbols in an input string. *)

\* a word that holds no operator symbol and is not and/or
PlainWord(w) == ~HasSymbolChar(w) /\ w \notin {S_and, S_or}

\* C11: the symbols & and | are operator tokens wherever they appear:
\* `A & B` tokenizes to [A, '&', B] and `A | B` to [A, '|', B], and no '&'
\* or '|' character is ever accumulated into a command token.
C11_SymbolsAreOperatorTokens ==
    (outcome \notin {"running", "idle"}) =>
        /\ outcome = "returned" =>
              \A k \in 1..Len(tokens) :
                  tokens[k] \in {S_amp, S_bar} \/ ~HasSymbolChar(tokens[k])
        /\ LET w == Split(command) IN
           (/\ HasNoDelimiter(command)
            /\ Len(w) = 3
            /\ w[2] \in {S_amp, S_bar}
            /\ PlainWord(w[1]) /\ PlainWord(w[3]))
           => /\ outcome = "returned"
              /\ tokens = <<w[1], w[2], w[3]>>

----------------------------------------------------------------------------
(* SpecSyntax: to_query called on queries that need not be well formed:     *)
(* every sequence of at most MaxTerms terms (a leaf command, and, or, a     *)
(* bracket) joined by spaces,   and every leaf command made of a lexeme,    *)
(* with and without the keyword `lexeme` in front, and at most MaxFlags     *)
(* flags.                                                                   *)

\* a query is made of at most MaxTerms terms
MaxTerms == 4
\* a leaf command names at most MaxFlags flags
MaxFlags == 2

Terms == {Leaf(1), S_and, S_or, <<"[">>, <<"]">>}

RECURSIVE TermStrings(_)
TermStrings(n) ==
    IF n = 1 THEN Terms
    ELSE LET S == TermStrings(n - 1) IN
         S \cup {s \o Sp \o t : s \in S, t \in Terms}

TermQueries == TermStrings(MaxTerms)

\* a flag and a value that no state of the flag scanner knows
W_flag_unknown == <<"-", "-", "f">>
W_junk == <<"j">>

FlagWord(field) ==
    CASE field = "case" -> W_flag_case
      [] field = "number" -> W_flag_number
      [] field = "gender" -> W_flag_gender
      [] field = "tense" -> W_flag_tense
      [] field = "voice" -> W_flag_voice
      [] field = "mood" -> W_flag_mood
      [] field = "person" -> W_flag_person

FlagWords == {FlagWord(f) : f \in FieldSet} \cup {W_flag_unknown}

ValueWords ==
    UNION {AcceptedValues(f) : f \in FieldSet} \cup {W_vocative, W_junk}

\* one accepted value of each flag
SampleValue(field) ==
    CASE field = "case" -> W_genitive
      [] field = "number" -> W_singular
      [] field = "gender" -> W_masculine
      [] field = "tense" -> W_aorist
      [] field = "voice" -> W_active
      [] field = "mood" -> W_indicative
      [] field = "person" -> W_third

SamplePairs == {Sp \o FlagWord(f) \o Sp \o SampleValue(f) : f \in FieldSet}

\* at most n flags, each with an accepted value
RECURSIVE SampleTails(_)
SampleTails(n) ==
    IF n = 0 THEN {<<>>}
    ELSE LET S == SampleTails(n - 1) IN
         S \cup {s \o p : s \in S, p \in SamplePairs}

\* what follows the lexeme: accepted flags; any one flag with any value;
\* accepted flags and then a flag with no value
FlagTails ==
    SampleTails(MaxFlags)
    \cup {Sp \o f \o Sp \o v : f \in FlagWords, v \in ValueWords}
    \cup {s \o Sp \o f : s \in SampleTails(MaxFlags - 1), f \in FlagWords}

LeafCommands ==
    {k \o <<"x">> \o t : k \in {W_lexeme \o Sp, <<>>}, t \in FlagTails}

SyntaxInputs == TermQueries \cup LeafCommands

SyntaxInit ==
    /\ command \in SyntaxInputs
    /\ idx = 0 /\ state = "DEFAULT_STATE" /\ tokens = <<>>
    /\ paren_depth = 0 /\ command_str = <<>> /\ outcome = "running"
    /\ parsed = NotCalled
    /\ SearchIdle /\ RefIdle /\ LibIdle

SpecSyntax == SyntaxInit /\ [][ParseNext]_vars

\* the ValueError('Syntax: ...') messages of the parser
SyntaxMessages ==
    {"Syntax: no argument to &.", "Syntax: unexpected argument to op",
     "Syntax: cannot have empty parentheses.", "Syntax: invalid search token",
     "Syntax: cannot define twice", "Syntax: lacking argument to",
     "Syntax: no arguments given to search type lexeme",
     "Syntax: unknown command type"}

IsSyntaxError(r) == ~r.ok /\ r.exc = "ValueError" /\ r.msg \in SyntaxMessages

\* the operator word at position k of w is the first token of its group
NoLeftOperand(w, k) == k = 1 \/ w[k - 1] \in {<<"[">>, <<"(">>}

\* the operator word at position k of w is the last token of its group
NoRightOperand(w, k) == k = Len(w) \/ w[k + 1] \in {<<"]">>, <<")">>}

\* C12: an operator with a missing operand is a syntax error: for every
\* query in which an AND or OR is the first or the last token of its group,
\* to_query fails with the ValueError 'Syntax: ...' and in no other way.
C12_MissingOperandIsSyntaxError ==
    LET w == Split(command) IN
    (/\ parsed # NotCalled
     /\ ProperlyNested(command)
     /\ \E k \in 1..Len(w) :
           w[k] \in {S_and, S_or} /\ (NoLeftOperand(w, k) \/ NoRightOperand(w, k)))
    => IsSyntaxError(parsed)

\* the fixed set of values of each flag: the five cases, and for the other
\* flags the values of their field
EnumeratedSet(field) ==
    IF field = "case"
    THEN {W_nominative, W_genitive, W_dative, W_accusative, W_vocative}
    ELSE AcceptedValues(field)

\* the leaf command `lexeme x --field v`
OneFlagCommand(field, v) ==
    W_lexeme \o Sp \o <<"x">> \o Sp \o FlagWord(field) \o Sp \o v

\* C13: each grammatical flag accepts exactly its fixed enumerated set:
\* `lexeme X --case v` is accepted, with the query's case set to v, exactly
\* when v is nominative, genitive, dative, accusative or vocative, and any
\* other value is rejected; the same for the other six flags with their sets.
C13_FlagAcceptsExactlyItsSet ==
    parsed # NotCalled =>
        \A f \in FieldSet : \A v \in ValueWords :
            command = OneFlagCommand(f, v) =>
                IF v \in EnumeratedSet(f)
                THEN parsed = Return([LexemeQuery(<<"x">>) EXCEPT !.filters[f] = v])
                ELSE ~parsed.ok

LexemeX == W_lexeme \o Sp \o <<"x">>

\* C14: malformed leaf commands are rejected with an error that names the
\* culprit: the same flag twice, an unrecognized flag, an out-of-set value
\* and a flag with no value each raise the syntax error, which identifies
\* the flag or value at fault (for a duplicated flag, that flag's own name).
C14_ErrorNamesTheCulprit ==
    parsed # NotCalled =>
        /\ \A f \in FieldSet :
              LET pair == Sp \o FlagWord(f) \o Sp \o SampleValue(f) IN
              /\ command = LexemeX \o pair \o pair =>
                    parsed = Raise("ValueError", "Syntax: cannot define twice", f)
              /\ command = LexemeX \o Sp \o FlagWord(f) =>
                    parsed = Raise("ValueError", "Syntax: lacking argument to", f)
              /\ \A v \in ValueWords \ EnumeratedSet(f) :
                    command = OneFlagCommand(f, v) =>
                        /\ ~parsed.ok /\ parsed.exc = "ValueError"
                        /\ parsed.msg = NotAMessage(f) /\ parsed.arg = v
        /\ \A t \in {<<>>} \cup {Sp \o v : v \in ValueWords} :
              command = LexemeX \o Sp \o W_flag_unknown \o t =>
                  parsed = Raise("ValueError", "Syntax: invalid search token",
                                 W_flag_unknown)

\* C15: a query that is just a lexeme, or a lexeme followed by flags, with
\* no search-type keyword in front (`X`, `X --case genitive`), is accepted by
\* to_query and yields a LexemeQuery for lexeme X carrying the given filters.
C15_BareLexemeIsAccepted ==
    parsed # NotCalled =>
        /\ command = <<"x">> => parsed = Return(LexemeQuery(<<"x">>))
        /\ \A f \in FieldSet :
              command = <<"x">> \o Sp \o FlagWord(f) \o Sp \o SampleValue(f) =>
                  parsed = Return(LexemeFilter(<<"x">>, f, SampleValue(f)))

----------------------------------------------------------------------------
(* Associativity. *)

\* no node of the tree has a node of its own type as its right operand
RECURSIVE NestsLeft(_)
NestsLeft(q) ==
    IF q.type \in {"AndQuery", "OrQuery"}
    THEN q.rhs.type # q.type /\ NestsLeft(q.lhs) /\ NestsLeft(q.rhs)
    ELSE TRUE

\* C16: chains of the same operator nest to the left: `A and B and C`
\* yields AndQuery(AndQuery(A,B), C) and `A or B or C` yields
\* OrQuery(OrQuery(A,B), C); in a query without groups, of any length, no
\* operator has a node of its own kind as its right operand.
C16_ChainsNestLeft ==
    parsed # NotCalled =>
        /\ command = Flat3(AndWord, AndWord) =>
              parsed = Return(AndQuery(AndQuery(LeafQuery(1), LeafQuery(2)),
                                       LeafQuery(3)))
        /\ command = Flat3(OrWord, OrWord) =>
              parsed = Return(OrQuery(OrQuery(LeafQuery(1), LeafQuery(2)),
                                      LeafQuery(3)))
        /\ (HasNoDelimiter(command) /\ parsed.ok) => NestsLeft(parsed.v)

----------------------------------------------------------------------------
(* What a search leaves behind. *)

\* C17: search is read-only and repeatable: every call of search leaves the
\* dataset list (same records, same order, same length), the list every
\* parent_set names and the query tree unchanged, and a second call with the
\* same tree and dataset returns a result equal to the first.
C17_SearchIsReadOnlyAndRepeatable ==
    [][calls' = calls + 1 =>
          /\ SubSeq(heap', 1, SearchDataId) = SubSeq(heap, 1, SearchDataId)
          /\ query' = query
          /\ calls > 0 => heap'[output_data'] = heap[output_data]]_vars

C17_Witness ==
    /\ calls > 1
    /\ query.type = "OrQuery" /\ query.lhs.type = "OrQuery"
    /\ Len(Result) > Len(OnCorpus(query.lhs))
    /\ Len(OnCorpus(query.lhs)) > Len(OnCorpus(query.lhs.lhs))

----------------------------------------------------------------------------
(* Proximity and books. *)

\* what the proximity node returns for the one input record w
Contribution(node, w) ==
    LET h == Append(Corpus, <<w>>) IN ValueOf(Search(node, h, Len(h)))

\* C18: proximity windows never leave the book: every record that
\* AnteQuery(n) or PostQuery(n) returns for an input record w has the same
\* Book as w, also when w is within n words of the first or last word of its
\* book inside a parent_set that holds several books.
C18_WindowsStayInBook ==
    (Called /\ EndsInProximity(query)) =>
        LET node == ProximityNode(query)
            input == ProximityInput(query)
        IN \A k \in 1..Len(input) :
              LET mine == Contribution(node, input[k]) IN
              \A j \in 1..Len(mine) : mine[j].Book = input[k].Book

----------------------------------------------------------------------------
(* AndQuery as an intersection. *)

\* C19: AndQuery.search finds the intersection of the two queries: for all
\* operand queries l, r (AnteQuery, PostQuery and WindowQuery included) the
\* result contains exactly the records that are both in l.search(D) and in
\* r.search(D).
C19_AndIsIntersection ==
    (Called /\ query.type = "AndQuery") =>
        \A k \in 1..Len(Corpus[SearchDataId]) :
            LET x == Corpus[SearchDataId][k] IN
            Holds(Result, x) <=>
                (Holds(OnCorpus(query.lhs), x) /\ Holds(OnCorpus(query.rhs), x))

----------------------------------------------------------------------------
(* Chapter/verse references, src/reference.py.  A verse_number that is None *)
(* is NoNumber and a verse_letter that is None is NoLetter, each distinct   *)
(* from every number and letter.                                            *)

NoNumber == -1
NoLetter == "None"

\* Reference.__init__ (lines 22-25)
Reference(chapter_number, verse_number, verse_letter) ==
    [chapter_number |-> chapter_number, verse_number |-> verse_number,
     verse_letter |-> verse_letter]

\* Reference.is_chapter (lines 33-35)
IsChapter(self) == self.verse_number = NoNumber

\* ord() of a verse letter
Ord(c) == CASE c = "a" -> 97 [] c = "b" -> 98 [] c = "c" -> 99

\* Reference.__eq__ (lines 37-40)
RefEq(self, other) ==
    /\ self.chapter_number = other.chapter_number
    /\ self.verse_number = other.verse_number
    /\ self.verse_letter = other.verse_letter

\* Reference.__lt__ (lines 42-67)
RefLt(self, other) ==
    IF self.chapter_number > other.chapter_number THEN FALSE
    ELSE IF IsChapter(self) \/ IsChapter(other) THEN
        self.chapter_number < other.chapter_number
    ELSE IF self.verse_number > other.verse_number THEN FALSE
    ELSE IF self.verse_letter = NoLetter /\ other.verse_letter = NoLetter THEN
        self.verse_number # other.verse_number
    ELSE IF NoLetter \in {self.verse_letter, other.verse_letter} THEN
        other.verse_letter = NoLetter
    ELSE Ord(self.verse_letter) < Ord(other.verse_letter)

\* Reference.__le__ (lines 69-70)
RefLe(self, other) == RefLt(self, other) \/ RefEq(self, other)

\* Reference.__gt__ (lines 72-73)
RefGt(self, other) == ~RefLt(self, other) /\ ~RefEq(self, other)

\* Reference.__ge__ (lines 75-76)
RefGe(self, other) == RefGt(self, other) \/ RefEq(self, other)

----------------------------------------------------------------------------
(* SpecReference: the comparison operators applied to every pair of         *)
(* References with chapters up to MaxChapter and verses up to MaxVerse,     *)
(* chapter-only or verse-bearing, with and without a letter.                *)

MaxChapter == 3
MaxVerse == 3

VerseLetters == {"a", "b"}

References ==
    {Reference(c, NoNumber, NoLetter) : c \in 1..MaxChapter}
    \cup {Reference(c, v, l) : c \in 1..MaxChapter, v \in 1..MaxVerse,
                               l \in VerseLetters \cup {NoLetter}}

ReferenceInit ==
    /\ TokIdle /\ ParseIdle /\ SearchIdle /\ LibIdle
    /\ ref_self \in References
    /\ ref_other \in References
    /\ ref_cmp = NotCompared

\* self < other, self == other, self <= other, self > other, self >= other
Compare ==
    /\ ~ref_cmp.done
    /\ ref_cmp' = [done |-> TRUE,
                   lt |-> RefLt(ref_self, ref_other),
                   eq |-> RefEq(ref_self, ref_other),
                   le |-> RefLe(ref_self, ref_other),
                   gt |-> RefGt(ref_self, ref_other),
                   ge |-> RefGe(ref_self, ref_other)]
    /\ UNCHANGED <<tokVars, parsed, searchVars, ref_self, ref_other, libVars>>

ReferenceNext == Compare

SpecReference == ReferenceInit /\ [][ReferenceNext]_vars

VerseBearing(r) == r.verse_number # NoNumber

\* C20: Reference ordering is lexicographic on chapter then verse: for all
\* verse-bearing References a and b without letters, a < b holds exactly
\* when a.chapter < b.chapter, or a.chapter = b.chapter and
\* a.verse < b.verse, also when a and b are in different chapters.
C20_OrderIsLexicographic ==
    (/\ ref_cmp.done
     /\ VerseBearing(ref_self) /\ VerseBearing(ref_other)
     /\ ref_self.verse_letter = NoLetter /\ ref_other.verse_letter = NoLetter)
    => (ref_cmp.lt <=>
           \/ ref_self.chapter_number < ref_other.chapter_number
           \/ /\ ref_self.chapter_number = ref_other.chapter_number
              /\ ref_self.verse_number < ref_other.verse_number)

SameVerse(a, b) ==
    /\ VerseBearing(a) /\ VerseBearing(b)
    /\ a.chapter_number = b.chapter_number
    /\ a.verse_number = b.verse_number

\* C21: an absent verse letter sorts before any present letter: for
\* References with the same chapter and verse, the one without a letter is
\* less than the one with a letter and not the other way round, and two
\* letters order alphabetically.
C21_AbsentLetterSortsFirst ==
    (ref_cmp.done /\ SameVerse(ref_self, ref_other)) =>
        /\ (ref_self.verse_letter = NoLetter /\ ref_other.verse_letter # NoLetter)
               => ref_cmp.lt
        /\ (ref_self.verse_letter # NoLetter /\ ref_other.verse_letter = NoLetter)
               => ~ref_cmp.lt
        /\ (ref_self.verse_letter # NoLetter /\ ref_other.verse_letter # NoLetter)
               => (ref_cmp.lt <=>
                      Ord(ref_self.verse_letter) < Ord(ref_other.verse_letter))

----------------------------------------------------------------------------
(* Containment of references, src/reference.py.  An object's class is read  *)
(* off its fields, as type() reads it off the instance.                     *)

TypeOf(item) ==
    IF "chapter_number" \in DOMAIN item THEN "Reference"
    ELSE IF "from_ref" \in DOMAIN item THEN "CompoundReference"
    ELSE IF "book" \in DOMAIN item THEN "BookReference"
    ELSE "NoneType"

\* CompoundReference.__init__ (lines 153-159)
CompoundReference(from_ref, to_ref) ==
    [from_ref |-> from_ref,
     to_ref |-> IF to_ref = NoReference THEN from_ref ELSE to_ref]

\* CompoundReference.is_range (lines 186-188)
IsRange(self) == ~RefEq(self.from_ref, self.to_ref)

\* Reference.__contains__ (lines 84-107)
RefContains(self, item) ==
    IF IsChapter(self) THEN
        IF TypeOf(item) = "Reference" THEN
            item.chapter_number = self.chapter_number
        ELSE IF TypeOf(item) = "CompoundReference" THEN
            /\ item.from_ref.chapter_number = self.chapter_number
            /\ item.to_ref.chapter_number = self.chapter_number
        ELSE FALSE
    ELSE
        IF TypeOf(item) = "Reference" THEN RefEq(item, self)
        ELSE IF TypeOf(item) = "CompoundReference" THEN
            /\ ~IsRange(item)
            /\ item.from_ref.chapter_number = self.chapter_number
        ELSE FALSE

\* attribute access on an object that lacks the attribute
NoAttribute(item, name) ==
    Raise("AttributeError", "object has no attribute", name)

\* CompoundReference.__contains__ (lines 167-184)
CompContains(self, item) ==
    IF ~IsRange(self) THEN Return(RefContains(self.from_ref, item))
    ELSE IF \/ TypeOf(item) = "Reference"
            \/ (TypeOf(item) = "CompoundReference" /\ ~IsRange(item)) THEN
        LET ref == IF TypeOf(item) = "CompoundReference" THEN item.from_ref
                   ELSE item
        IN  Return(RefLe(self.from_ref, ref) /\ RefLe(ref, self.to_ref))
    ELSE IF "from_ref" \notin DOMAIN item THEN NoAttribute(item, "from_ref")
    ELSE Return(/\ RefGe(item.from_ref, self.from_ref)
                /\ RefLe(item.to_ref, self.to_ref))

----------------------------------------------------------------------------
(* SpecContain: `B in A`, `C in B` and `C in A` for CompoundReferences A    *)
(* and B and a Reference or CompoundReference C.  The ranges run forward    *)
(* between verse-bearing References of up to MaxConChapter chapters and     *)
(* MaxConVerse verses, with and without a letter; a whole chapter is the    *)
(* CompoundReference of a chapter-only Reference.                           *)

MaxConChapter == 2
MaxConVerse == 2

ConLetters == {NoLetter, "a"}

\* a verse letter's place in the alphabet, an absent letter first
LetterRank(l) == IF l = NoLetter THEN 0 ELSE Ord(l)

\* a comes before b in the document: (chapter, verse, letter) order
Before(a, b) ==
    \/ a.chapter_number < b.chapter_number
    \/ /\ a.chapter_number = b.chapter_number
       /\ \/ a.verse_number < b.verse_number
          \/ /\ a.verse_number = b.verse_number
             /\ LetterRank(a.verse_letter) < LetterRank(b.verse_letter)

NotAfter(a, b) == Before(a, b) \/ a = b

ConVerses ==
    {Reference(c, v, l) : c \in 1..MaxConChapter, v \in 1..MaxConVerse,
                          l \in ConLetters}

ConChapters == {Reference(c, NoNumber, NoLetter) : c \in 1..MaxConChapter}

ConCompounds ==
    {CompoundReference(r, NoReference) : r \in ConChapters}
    \cup {CompoundReference(p[1], p[2]) :
              p \in {q \in ConVerses \X ConVerses : NotAfter(q[1], q[2])}}

ContainInit ==
    /\ TokIdle /\ ParseIdle /\ SearchIdle /\ RefIdle /\ StrIdle /\ DecIdle /\ ScanIdle
    /\ con_a \in ConCompounds
    /\ con_b \in ConCompounds
    /\ con_c \in ConVerses \cup ConChapters \cup ConCompounds
    /\ con_res = NotCompared

\* con_b in con_a, con_c in con_b, con_c in con_a
Contain ==
    /\ ~con_res.done
    /\ TypeOf(con_a) = "CompoundReference"
    /\ con_res' = [done |-> TRUE,
                   b_in_a |-> CompContains(con_a, con_b),
                   c_in_b |-> CompContains(con_b, con_c),
                   c_in_a |-> CompContains(con_a, con_c)]
    /\ UNCHANGED <<tokVars, parsed, searchVars, refVars, con_a, con_b, con_c,
                   strVars, decVars, scanVars>>

ContainNext == Contain

SpecContain == ContainInit /\ [][ContainNext]_vars

\* the range a in document order holds r
Within(a, r) == NotAfter(a.from_ref, r) /\ NotAfter(r, a.to_ref)

\* C22: range containment follows document order: a range contains a
\* verse-bearing Reference exactly when the Reference lies between the
\* range's bounds inclusive in (chapter, verse, letter) order, also when the
\* range spans several chapters, and it contains another range exactly when
\* both bounds of the inner range lie within the outer range.
C22_RangeContainsByDocumentOrder ==
    (con_res.done /\ IsRange(con_a)) =>
        /\ (TypeOf(con_c) = "Reference" /\ VerseBearing(con_c)) =>
               (con_res.c_in_a = Return(TRUE) <=> Within(con_a, con_c))
        /\ (TypeOf(con_c) = "CompoundReference" /\ IsRange(con_c)) =>
               (con_res.c_in_a = Return(TRUE) <=>
                    (Within(con_a, con_c.from_ref)
                     /\ Within(con_a, con_c.to_ref)))

\* C23: containment is transitive: for CompoundReferences A and B and a
\* Reference or CompoundReference C, whenever `B in A` and `C in B` both
\* hold, `C in A` holds.
C23_ContainmentIsTransitive ==
    (/\ con_res.done
     /\ con_res.b_in_a = Return(TRUE)
     /\ con_res.c_in_b = Return(TRUE))
    => con_res.c_in_a = Return(TRUE)

----------------------------------------------------------------------------
(* SpecBook: `b in a` for BookReferences a and b over two books, each a     *)
(* whole book (reference None) or a book with a CompoundReference.          *)

\* BookReference.__init__ (lines 246-249)
BookReference(book, reference) == [book |-> book, reference |-> reference]

\* BookReference.is_book_reference (lines 263-265)
IsBookReference(self) == self.reference = NoReference

\* BookReference.__contains__ (lines 257-261)
BookContains(self, item) ==
    IF IsBookReference(self) THEN Return(self.book = item.book)
    ELSE IF self.book # item.book THEN Return(FALSE)
    ELSE CompContains(self.reference, item.reference)

Books == {"Genesis", "Exodus"}

BookReferences ==
    {BookReference(b, r) : b \in Books, r \in ConCompounds \cup {NoReference}}

BookInit ==
    /\ TokIdle /\ ParseIdle /\ SearchIdle /\ RefIdle /\ StrIdle /\ DecIdle /\ ScanIdle
    /\ con_a \in BookReferences
    /\ con_b \in BookReferences
    /\ con_c = NoReference
    /\ con_res = NotCompared

\* con_b in con_a
BookContain ==
    /\ ~con_res.done
    /\ TypeOf(con_a) = "BookReference"
    /\ con_res' = [done |-> TRUE, b_in_a |-> BookContains(con_a, con_b)]
    /\ UNCHANGED <<tokVars, parsed, searchVars, refVars, con_a, con_b, con_c,
                   strVars, decVars, scanVars>>

BookNext == BookContain

SpecBook == BookInit /\ [][BookNext]_vars

\* C24: `b in a` on BookReferences always returns a boolean, and it is true
\* exactly when the book names are equal and, if both a and b carry a
\* reference, a.reference contains b.reference; when either one is a whole
\* book only the book names decide.
C24_BookContainment ==
    con_res.done =>
        /\ con_res.b_in_a.ok
        /\ con_res.b_in_a.v <=>
               /\ con_a.book = con_b.book
               /\ (~IsBookReference(con_a) /\ ~IsBookReference(con_b)) =>
                      CompContains(con_a.reference, con_b.reference)
                          = Return(TRUE)

\* C28: the Reference comparison operators agree with each other: for all
\* References a and b, a > b holds exactly when b < a, and at most one of
\* a < b, a == b, a > b holds.
C28_ComparisonsAgree ==
    ref_cmp.done =>
        /\ ref_cmp.gt <=> RefLt(ref_other, ref_self)
        /\ ~(ref_cmp.lt /\ ref_cmp.eq)
        /\ ~(ref_cmp.lt /\ ref_cmp.gt)
        /\ ~(ref_cmp.eq /\ ref_cmp.gt)

----------------------------------------------------------------------------
(* Parsing and printing of references, src/reference.py. *)

IsLower(c) == c \in {"a", "b", "c"}

IndexOf(s, c) == SetMin({i \in 1..Len(s) : s[i] = c})

Has(s, c) == \E i \in 1..Len(s) : s[i] = c

\* int(s): a ValueError unless s is made of decimal digits
PyInt(s) ==
    IF ParseInt(s) = -1 THEN
        Raise("ValueError", "invalid literal for int() with base 10", s)
    ELSE Return(ParseInt(s))

\* Reference.is_reference (lines 28-31): re.match of
\* '[0-9]+([.:][0-9]+[a-z]?)?' looks for the pattern at the start of the
\* string only, and the group is optional
IsReference(string) == Len(string) > 0 /\ IsDigit(string[1])

\* re.match('[0-9]+[a-z]?', s) (lines 206, 228)
StartsWithNumber(s) == Len(s) > 0 /\ IsDigit(s[1])

\* re.match('.*[a-z]', s) (lines 141, 229)
HasLetter(s) == \E i \in 1..Len(s) : IsLower(s[i])

\* _split_verse_into_num_and_char (lines 8-18), called on a string that has
\* a character which is not a digit
SplitVerse(verse_string) ==
    LET char_idx == SetMin({i \in 1..Len(verse_string) :
                               ~IsDigit(verse_string[i])})
    IN  [verse_part |-> SubSeq(verse_string, 1, char_idx - 1),
         verse_letter |-> SubSeq(verse_string, char_idx, Len(verse_string))]

\* the verse letter the source stores: one letter, or some longer str, which
\* is no letter of the model
LetterOf(s) == IF Len(s) = 1 /\ IsLower(s[1]) THEN s[1] ELSE "not a letter"

\* Reference.__str__ (lines 78-82)
RefStr(self) ==
    IF self.verse_number = NoNumber THEN DecStr(self.chapter_number)
    ELSE DecStr(self.chapter_number) \o <<".">> \o DecStr(self.verse_number)
         \o (IF self.verse_letter # NoLetter THEN <<self.verse_letter>>
             ELSE <<>>)

\* CompoundReference.__str__ (lines 161-165)
CompStr(self) ==
    IF IsRange(self) THEN RefStr(self.from_ref) \o <<"-">> \o RefStr(self.to_ref)
    ELSE RefStr(self.from_ref)

\* Reference.from_str (lines 109-149)
RefFromStr(raw) ==
    LET string == Strip(raw) IN
    IF ~IsReference(string) THEN
        Raise("ValueError", "String not a valid reference: ", string)
    ELSE IF Has(string, ":") \/ Has(string, ".") THEN
        LET separator_index == IF Has(string, ":") THEN IndexOf(string, ":")
                               ELSE IndexOf(string, ".")
            chapter_part == SubSeq(string, 1, separator_index - 1)
            after == SubSeq(string, separator_index + 1, Len(string))
            cut == IF Has(after, "/") THEN SubSeq(after, 1, IndexOf(after, "/") - 1)
                   ELSE after
            verse_part == IF HasLetter(cut) THEN SplitVerse(cut).verse_part
                          ELSE cut
            verse_letter == IF HasLetter(cut)
                            THEN LetterOf(SplitVerse(cut).verse_letter)
                            ELSE NoLetter
        IN  IF ~PyInt(chapter_part).ok THEN PyInt(chapter_part)
            ELSE IF ~PyInt(verse_part).ok THEN PyInt(verse_part)
            ELSE Return(Reference(PyInt(chapter_part).v, PyInt(verse_part).v,
                                  verse_letter))
    ELSE IF ~PyInt(string).ok THEN PyInt(string)
    ELSE Return(Reference(PyInt(string).v, NoNumber, NoLetter))

\* CompoundReference.is_compound_reference (lines 190-209)
IsCompoundReference(string) ==
    /\ Has(string, "-")
    /\ IsReference(SubSeq(string, 1, IndexOf(string, "-") - 1))
    /\ LET after_dash == SubSeq(string, IndexOf(string, "-") + 1, Len(string))
       IN  StartsWithNumber(after_dash) \/ IsReference(after_dash)

\* CompoundReference.from_str (lines 211-242)
CompFromStr(raw) ==
    LET string == Strip(raw) IN
    IF ~IsCompoundReference(string) THEN
        IF ~IsReference(string) THEN
            Raise("ValueError", "Not a valid reference: ", string)
        ELSE IF ~RefFromStr(string).ok THEN RefFromStr(string)
        ELSE Return(CompoundReference(RefFromStr(string).v, NoReference))
    ELSE
        LET dash_idx == IndexOf(string, "-")
            from_ref == RefFromStr(SubSeq(string, 1, dash_idx - 1))
            after_dash == SubSeq(string, dash_idx + 1, Len(string))
        IN  IF ~from_ref.ok THEN from_ref
            ELSE IF StartsWithNumber(after_dash) THEN
                LET verse_number == IF HasLetter(after_dash)
                                    THEN SplitVerse(after_dash).verse_part
                                    ELSE after_dash
                    verse_char == IF HasLetter(after_dash)
                                  THEN LetterOf(SplitVerse(after_dash).verse_letter)
                                  ELSE NoLetter
                IN  IF ~PyInt(verse_number).ok THEN PyInt(verse_number)
                    ELSE Return(CompoundReference(from_ref.v,
                             Reference(from_ref.v.chapter_number,
                                       PyInt(verse_number).v, verse_char)))
            ELSE IF IsReference(after_dash) THEN
                IF ~RefFromStr(after_dash).ok THEN RefFromStr(after_dash)
                ELSE Return(CompoundReference(from_ref.v, RefFromStr(after_dash).v))
            ELSE Raise("ValueError", "Not a valid compound reference: ", string)

----------------------------------------------------------------------------
(* SpecFromStr: CompoundReference.from_str on every string of at most       *)
(* MaxRefChars characters of references, and on str(x) of every             *)
(* CompoundReference x of SpecContain.                                      *)

MaxRefChars == 5

RefChars == {"1", "2", ".", ":", "-", "a", "/"}

RefStrings == UNION {[1..n -> RefChars] : n \in 0..MaxRefChars}

FromStrInit ==
    /\ TokIdle /\ ParseIdle /\ SearchIdle /\ RefIdle /\ ConIdle /\ DecIdle /\ ScanIdle
    /\ str_in \in RefStrings \cup {CompStr(x) : x \in ConCompounds}
    /\ str_out = NotCalled

\* CompoundReference.from_str(str_in)
CallFromStr ==
    /\ str_out = NotCalled
    /\ str_out' = CompFromStr(str_in)
    /\ UNCHANGED <<tokVars, parsed, searchVars, refVars, conVars, str_in, decVars, scanVars>>

FromStrNext == CallFromStr

SpecFromStr == FromStrInit /\ [][FromStrNext]_vars

Verse(c, v) == Reference(c, v, NoLetter)

\* `c.v1-v2`
ShortForm(c, v1, v2) == RefStr(Verse(c, v1)) \o <<"-">> \o DecStr(v2)

\* `c1.v1-c2.v2`
FullForm(c1, v1, c2, v2) ==
    RefStr(Verse(c1, v1)) \o <<"-">> \o RefStr(Verse(c2, v2))

\* C27: CompoundReference.from_str parses both forms of the part after the
\* dash: `c.v1-v2` gives from = Reference(c, v1) and to = Reference(c, v2),
\* `c1.v1-c2.v2` gives to = Reference(c2, v2), and from_str(str(x)) has the
\* same from and to as x for every range x of verse-bearing references.
C27_FromStrParsesBothForms ==
    str_out # NotCalled =>
        /\ \A c \in 1..2, v1 \in 1..2, v2 \in 1..2 :
              str_in = ShortForm(c, v1, v2) =>
                  str_out = Return([from_ref |-> Verse(c, v1),
                                    to_ref |-> Verse(c, v2)])
        /\ \A c1 \in 1..2, v1 \in 1..2, c2 \in 1..2, v2 \in 1..2 :
              str_in = FullForm(c1, v1, c2, v2) =>
                  str_out = Return([from_ref |-> Verse(c1, v1),
                                    to_ref |-> Verse(c2, v2)])
        /\ \A x \in ConCompounds :
              (IsRange(x) /\ str_in = CompStr(x)) => str_out = Return(x)

----------------------------------------------------------------------------
(* The morphology decoders of the generation scripts,                       *)
(* src/generation/generate_lxx.py and src/generation/generate_opengnt.py.   *)
(* A word's morph_code is the str of the code before it is decoded and the  *)
(* dict of attributes afterwards; the dict is a function from attribute     *)
(* names to values.                                                         *)

PyStr(s) == [type |-> "str", v |-> s]
PyDict(d) == [type |-> "dict", v |-> d]

W_middle_passive ==
    <<"m", "i", "d", "d", "l", "e", "/", "p", "a", "s", "s", "i", "v", "e">>

\* s[i] of Python, or the empty str where s has no index i
At(s, i) == IF i < Len(s) THEN <<s[i + 1]>> ELSE <<>>

\* s[i:]
From(s, i) == SubSeq(s, i + 1, Len(s))

StartsWith(s, prefix) ==
    Len(prefix) <= Len(s) /\ SubSeq(s, 1, Len(prefix)) = prefix

\* s.split(sep) for a separator of one character
RECURSIVE SplitOn(_, _)
SplitOn(s, sep) ==
    IF ~Has(s, sep) THEN <<s>>
    ELSE <<SubSeq(s, 1, IndexOf(s, sep) - 1)>>
         \o SplitOn(From(s, IndexOf(s, sep)), sep)

\* result[field] = value
Store(result, field, value) ==
    [x \in DOMAIN result \cup {field} |->
        IF x = field THEN value ELSE result[x]]

----------------------------------------------------------------------------
(* interpret_morphology, generate_lxx.py:72-324 *)

\* case_map .. person_map (lines 78-120)
LxxMap(field) ==
    CASE field = "case" ->
           ("N" :> W_nominative) @@ ("G" :> W_genitive) @@ ("D" :> W_dative)
           @@ ("A" :> W_accusative) @@ ("V" :> W_vocative)
      [] field = "number" ->
           ("S" :> W_singular) @@ ("P" :> W_plural) @@ ("D" :> W_dual)
      [] field = "gender" ->
           ("M" :> W_masculine) @@ ("F" :> W_feminine) @@ ("N" :> W_neuter)
      [] field = "tense" ->
           ("P" :> W_present) @@ ("I" :> W_imperfect) @@ ("A" :> W_aorist)
           @@ ("X" :> W_perfect) @@ ("F" :> W_future) @@ ("Y" :> W_pluperfect)
      [] field = "voice" ->
           ("A" :> W_active) @@ ("M" :> W_middle) @@ ("P" :> W_passive)
      [] field = "mood" ->
           ("I" :> W_indicative) @@ ("D" :> W_imperative)
           @@ ("P" :> W_participle) @@ ("N" :> W_infinitive)
           @@ ("S" :> W_subjunctive) @@ ("O" :> W_optative)
      [] field = "person" ->
           ("1" :> W_first) @@ ("2" :> W_second) @@ ("3" :> W_third)

\* the codes set by word_index (lines 124-139)
Corrected(word) ==
    CASE word.word_index = 239870 -> <<"V", ".", "A", "P", "I", "3", "S">>
      [] word.word_index = 332804 -> <<"A">>
      [] word.word_index = 335067 -> <<"A", ".", "N">>
      [] word.word_index = 422765 -> <<"V", ".", "A", "P", "S", "2", "S">>
      [] word.word_index = 422848 -> <<"V", ".", "P", "M", "I", "3", "P">>
      [] word.word_index = 433328 -> <<"N", ".", "D", "S", "F">>
      [] word.word_index = 473507 -> <<"A", ".", "A", "P", "N">>
      [] word.word_index = 483471 -> <<"A", ".", "N", "S", "M">>
      [] OTHER -> word.morph_code.v

\* '.' of a pattern: any character
AnyChar == {}

\* the codes compared with == (lines 141-170), in order
LxxWholeCodes ==
    <<<<<<"P">>, "preposition">>,
      <<<<"P", "+", "X">>, "conjunction">>,
      <<<<"C">>, "conjunction">>,
      <<<<"X">>, "particle">>,
      <<<<"C", "+", "X">>, "particle">>,
      <<<<"D">>, "adverb">>,
      <<<<"D", ".", "P">>, "adverb">>,
      <<<<"C", "+", "D">>, "adverb">>,
      <<<<"M">>, "adjective">>,
      <<<<"I">>, "interjection">>,
      <<<<"N">>, "noun">>,
      <<<<"A">>, "adjective">>,
      <<<<"A", ".", "B">>, "adjective">>,
      <<<<"R", "A", "+", "A">>, "adjective">>,
      <<<<"R", "I">>, "pronoun">>>>

\* the rules tried with re.match (lines 171-320), in order: the pattern as one
\* set of characters per position, the part of speech, the extras, and the
\* attributes with the index of morph_code each is read at
LxxRules ==
    <<[pat |-> <<{"N"}, {"."}, {"N", "G", "D", "A", "V"}, {"S", "P", "D"}, {"M", "F", "N"}>>,
       pos |-> "noun", extras |-> <<>>,
       attrs |-> <<<<"case", 2>>, <<"number", 3>>, <<"gender", 4>>>>],
      [pat |-> <<{"R"}, {"D"}, {"+"}, {"N"}, {"."}, {"N", "G", "D", "A", "V"}, {"S", "P", "D"}, {"M", "F", "N"}>>,
       pos |-> "noun", extras |-> <<>>,
       attrs |-> <<<<"case", 5>>, <<"number", 6>>, <<"gender", 7>>>>],
      [pat |-> <<{"M"}, {"3"}, {"M"}, {"."}, {"N", "G", "D", "A", "V"}, {"S", "P", "D"}, {"M", "F", "N"}>>,
       pos |-> "noun", extras |-> <<>>,
       attrs |-> <<<<"case", 4>>, <<"number", 5>>, <<"gender", 6>>>>],
      [pat |-> <<{"N"}, {"."}, {"N", "G", "D", "A", "V"}, {"S", "P", "D"}>>,
       pos |-> "noun", extras |-> <<>>,
       attrs |-> <<<<"case", 2>>, <<"number", 3>>>>],
      [pat |-> <<{"N"}, {"."}, {"S", "P", "D"}>>,
       pos |-> "noun", extras |-> <<>>,
       attrs |-> <<<<"number", 2>>>>],
      [pat |-> <<{"N"}, {"."}, {"N", "G", "D", "A", "V"}, {" "}, {"M", "F", "N"}>>,
       pos |-> "noun", extras |-> <<>>,
       attrs |-> <<<<"gender", 4>>>>],
      [pat |-> <<{"N"}, {"."}, {"N", "G", "D", "A", "V"}>>,
       pos |-> "noun", extras |-> <<>>,
       attrs |-> <<<<"case", 2>>>>],
      [pat |-> <<{"A"}, {"."}, {"N", "G", "D", "A", "V"}, {"S", "P", "D"}, {"M", "F", "N"}>>,
       pos |-> "adjective", extras |-> <<>>,
       attrs |-> <<<<"case", 2>>, <<"number", 3>>, <<"gender", 4>>>>],
      [pat |-> <<{"P"}, {"+"}, {"A"}, {"."}, {"N", "G", "D", "A", "V"}, {"S", "P", "D"}, {"M", "F", "N"}>>,
       pos |-> "adjective", extras |-> <<>>,
       attrs |-> <<<<"case", 4>>, <<"number", 5>>, <<"gender", 6>>>>],
      [pat |-> <<{"R"}, {"A"}, {"+"}, {"A"}, {"."}, {"N", "G", "D", "A", "V"}, {"S", "P", "D"}, {"M", "F", "N"}>>,
       pos |-> "adjective", extras |-> <<>>,
       attrs |-> <<<<"case", 5>>, <<"number", 6>>, <<"gender", 7>>>>],
      [pat |-> <<{"A"}, {"."}, {"N", "G", "D", "A", "V"}>>,
       pos |-> "adjective", extras |-> <<>>,
       attrs |-> <<<<"case", 2>>>>],
      [pat |-> <<{"A"}, {"."}, {"S", "P", "D"}>>,
       pos |-> "adjective", extras |-> <<>>,
       attrs |-> <<<<"number", 2>>>>],
      [pat |-> <<{"A"}, {"1", "2", "3", "4", "5", "6", "7", "8", "9"}>>,
       pos |-> "adjective", extras |-> <<>>,
       attrs |-> <<>>],
      [pat |-> <<{"M"}, {"."}, {"N", "G", "D", "A", "V"}, {"S", "P", "D"}, {"M", "F", "N"}>>,
       pos |-> "adjective", extras |-> <<>>,
       attrs |-> <<<<"case", 2>>, <<"number", 3>>, <<"gender", 4>>>>],
      [pat |-> <<{"M"}, {"."}, {"N", "G", "D", "A", "V"}, {"S", "P", "D"}, {"M", "F", "N"}>>,
       pos |-> "adjective", extras |-> <<>>,
       attrs |-> <<<<"case", 2>>, <<"number", 3>>, <<"gender", 4>>>>],
      [pat |-> <<{"M"}, {"."}, {"N", "G", "D", "A", "V"}, {"S", "P", "D"}>>,
       pos |-> "adjective", extras |-> <<>>,
       attrs |-> <<<<"case", 2>>, <<"number", 3>>>>],
      [pat |-> <<{"V"}, {"."}, {"P", "F", "I", "A", "X", "Y"}, {"A", "M", "P"}, {"I", "D", "S", "O"}, {"1", "2", "3"}, {"S", "P", "D"}>>,
       pos |-> "verb", extras |-> <<>>,
       attrs |-> <<<<"tense", 2>>, <<"voice", 3>>, <<"mood", 4>>, <<"person", 5>>, <<"number", 6>>>>],
      [pat |-> <<{"V"}, {"."}, {"P", "F", "I", "A", "X", "Y"}, {"A", "M", "P"}, {"I", "D", "S", "O"}>>,
       pos |-> "verb", extras |-> <<>>,
       attrs |-> <<<<"tense", 2>>, <<"voice", 3>>, <<"mood", 4>>>>],
      [pat |-> <<{"V"}, AnyChar, {"P", "F", "I", "A", "X", "Y"}, {"A", "M", "P"}, {"P"}, {"N", "G", "D", "A", "V"}, {"S", "P", "D"}, {"M", "F", "N"}>>,
       pos |-> "verb", extras |-> <<>>,
       attrs |-> <<<<"tense", 2>>, <<"voice", 3>>, <<"mood", 4>>, <<"case", 5>>, <<"number", 6>>, <<"gender", 7>>>>],
      [pat |-> <<{"V"}, AnyChar, {"P", "F", "I", "A", "X", "Y"}, {"A", "M", "P"}, {"P"}>>,
       pos |-> "verb", extras |-> <<>>,
       attrs |-> <<<<"tense", 2>>, <<"voice", 3>>, <<"mood", 4>>>>],
      [pat |-> <<{"V"}, {"."}, {"P", "F", "I", "A", "X", "Y"}, {"A", "M", "P"}, {"N"}>>,
       pos |-> "verb", extras |-> <<>>,
       attrs |-> <<<<"tense", 2>>, <<"voice", 3>>, <<"mood", 4>>>>],
      [pat |-> <<{"R"}, {"A"}, {"."}, {"N", "G", "D", "A", "V"}, {"S", "P", "D"}, {"M", "F", "N"}>>,
       pos |-> "article", extras |-> <<>>,
       attrs |-> <<<<"case", 3>>, <<"number", 4>>, <<"gender", 5>>>>],
      [pat |-> <<{"R"}, {"R"}, {"."}, {"N", "G", "D", "A", "V"}, {"S", "P", "D"}, {"M", "F", "N"}>>,
       pos |-> "pronoun", extras |-> <<"relative">>,
       attrs |-> <<<<"case", 3>>, <<"number", 4>>, <<"gender", 5>>>>],
      [pat |-> <<{"R"}, {"A"}, {"."}, {"N", "G", "D", "A", "V"}, {"S", "P", "D"}>>,
       pos |-> "pronoun", extras |-> <<"relative">>,
       attrs |-> <<<<"case", 3>>, <<"number", 4>>>>],
      [pat |-> <<{"R"}, {"D"}, {"."}, {"N", "G", "D", "A", "V"}, {"S", "P", "D"}, {"M", "F", "N"}>>,
       pos |-> "pronoun", extras |-> <<>>,
       attrs |-> <<<<"case", 3>>, <<"number", 4>>, <<"gender", 5>>>>],
      [pat |-> <<{"C"}, {"+"}, {"R"}, {"D"}, {"."}, {"N", "G", "D", "A", "V"}, {"S", "P", "D"}, {"M", "F", "N"}>>,
       pos |-> "pronoun", extras |-> <<>>,
       attrs |-> <<<<"case", 5>>, <<"number", 6>>, <<"gender", 7>>>>],
      [pat |-> <<{"R"}, {"D"}, {"."}, {"N", "G", "D", "A", "V"}, {"S", "P", "D"}>>,
       pos |-> "pronoun", extras |-> <<>>,
       attrs |-> <<<<"case", 3>>, <<"number", 4>>>>],
      [pat |-> <<{"R"}, {"P"}, AnyChar, {"N", "G", "D", "A", "V"}, {"S", "P", "D"}>>,
       pos |-> "pronoun", extras |-> <<>>,
       attrs |-> <<<<"case", 3>>, <<"number", 4>>>>],
      [pat |-> <<{"R"}, {"I"}, {"."}, {"N", "G", "D", "A", "V"}, {"S", "P", "D"}, {"M", "F", "N"}>>,
       pos |-> "pronoun", extras |-> <<>>,
       attrs |-> <<<<"case", 3>>, <<"number", 4>>, <<"gender", 5>>>>],
      [pat |-> <<{"R"}, {"I"}, {"."}, {"N", "G", "D", "A", "V"}>>,
       pos |-> "pronoun", extras |-> <<>>,
       attrs |-> <<<<"case", 3>>>>],
      [pat |-> <<{"R"}, {"X"}, {"."}, {"N", "G", "D", "A", "V"}, {"S", "P", "D"}, {"M", "F", "N"}>>,
       pos |-> "pronoun", extras |-> <<>>,
       attrs |-> <<<<"case", 3>>, <<"number", 4>>, <<"gender", 5>>>>],
      [pat |-> <<{"C"}, {"+"}, {"R"}, {"P"}, {"."}, {"N", "G", "D", "A", "V"}, {"S", "P", "D"}>>,
       pos |-> "pronoun", extras |-> <<>>,
       attrs |-> <<<<"case", 5>>, <<"number", 6>>>>],
      [pat |-> <<{"R"}, {"P"}, {"+"}, {"X"}, {"."}, {"N", "G", "D", "A", "V"}, {"S", "P", "D"}>>,
       pos |-> "pronoun", extras |-> <<>>,
       attrs |-> <<<<"case", 5>>, <<"number", 6>>>>]>>

\* re.match(pattern, morph_code): the pattern is looked for at the start
PatMatch(pat, s) ==
    /\ Len(pat) <= Len(s)
    /\ \A i \in 1..Len(pat) : pat[i] = AnyChar \/ s[i] \in pat[i]

\* the assignments of one rule (e.g. lines 172-175), in order
RECURSIVE LxxAssign(_, _, _)
LxxAssign(attrs, morph_code, result) ==
    IF Len(attrs) = 0 THEN Return(result)
    ELSE LET field == attrs[1][1]
             i == attrs[1][2]
         IN  IF i >= Len(morph_code) THEN
                 Raise("IndexError", "string index out of range", <<>>)
             ELSE IF morph_code[i + 1] \notin DOMAIN LxxMap(field) THEN
                 Raise("KeyError", "", <<morph_code[i + 1]>>)
             ELSE LxxAssign(Tail(attrs), morph_code,
                      Store(result, field, LxxMap(field)[morph_code[i + 1]]))

\* the body of the loop for one word (lines 75-322): the decoded result, or
\* the ValueError of line 322
LxxDecode(word, n) ==
    LET morph_code == Corrected(word)
        whole == {k \in 1..Len(LxxWholeCodes) : LxxWholeCodes[k][1] = morph_code}
        rules == {k \in 1..Len(LxxRules) : PatMatch(LxxRules[k].pat, morph_code)}
    IN  IF whole # {} THEN
            Return("part_of_speech" :> <<LxxWholeCodes[SetMin(whole)][2]>>)
        ELSE IF rules # {} THEN
            LET rule == LxxRules[SetMin(rules)]
                start == IF Len(rule.extras) = 0
                         THEN ("part_of_speech" :> <<rule.pos>>)
                         ELSE ("part_of_speech" :> <<rule.pos>>)
                              @@ ("extras" :> rule.extras)
            IN  LxxAssign(rule.attrs, morph_code, start)
        ELSE Raise("ValueError", "Unknown morphology code: ; word: ; idx: /",
                   <<morph_code, word.word, word.word_index, n>>)

\* interpret_morphology(lxx_data) from word k on: every word's morph_code is
\* replaced by its decoded result (line 324) until a word raises
RECURSIVE InterpretMorphology(_, _)
InterpretMorphology(lxx_data, k) ==
    IF k > Len(lxx_data) THEN [data |-> lxx_data, out |-> Return(None)]
    ELSE LET r == LxxDecode(lxx_data[k], Len(lxx_data)) IN
         IF ~r.ok THEN [data |-> lxx_data, out |-> r]
         ELSE InterpretMorphology(
                  [lxx_data EXCEPT ![k].morph_code = PyDict(r.v)], k + 1)

----------------------------------------------------------------------------
(* interpret_rmac_code, generate_opengnt.py:112-362.  The statements of the *)
(* try block that can raise or that change result are listed in the order   *)
(* they run and then run one by one.                                        *)

\* part_of_speech_map .. hebrew_extras (lines 117-217)
RmacMap(name) ==
    CASE name = "part_of_speech" ->
           (<<"N">> :> <<"noun">>) @@ (<<"V">> :> <<"verb">>)
           @@ (<<"T">> :> <<"article">>) @@ (<<"A">> :> <<"adjective">>)
           @@ [c \in {<<"P">>, <<"R">>, <<"D">>, <<"I">>, <<"F">>, <<"X">>,
                      <<"Q">>, <<"S">>, <<"K">>, <<"C">>} |-> <<"pronoun">>]
      [] name = "case" ->
           (<<"N">> :> W_nominative) @@ (<<"G">> :> W_genitive)
           @@ (<<"D">> :> W_dative) @@ (<<"A">> :> W_accusative)
           @@ (<<"V">> :> W_vocative)
      [] name = "number" -> (<<"S">> :> W_singular) @@ (<<"P">> :> W_plural)
      [] name = "gender" ->
           (<<"M">> :> W_masculine) @@ (<<"F">> :> W_feminine)
           @@ (<<"N">> :> W_neuter)
      [] name = "noun_extras" ->
           (<<"P">> :> "proper") @@ (<<"T">> :> "title")
           @@ (<<"L">> :> "location") @@ (<<"G">> :> "group")
           @@ (<<"L", "I">> :> "indeclinable letter")
      [] name = "tense" ->
           (<<"A">> :> W_aorist) @@ (<<"2", "A">> :> W_aorist)
           @@ (<<"P">> :> W_present) @@ (<<"I">> :> W_imperfect)
           @@ (<<"F">> :> W_future) @@ (<<"2", "R">> :> W_perfect)
           @@ (<<"R">> :> W_perfect) @@ (<<"2", "F">> :> W_future)
           @@ (<<"L">> :> W_pluperfect) @@ (<<"2", "L">> :> W_pluperfect)
           @@ (<<"2", "P">> :> W_present)
      [] name = "voice" ->
           (<<"A">> :> W_active) @@ (<<"P">> :> W_passive)
           @@ (<<"O">> :> W_passive) @@ (<<"D">> :> W_middle)
           @@ (<<"N">> :> W_middle_passive) @@ (<<"E">> :> W_middle_passive)
           @@ (<<"M">> :> W_middle)
      [] name = "mood" ->
           (<<"I">> :> W_indicative) @@ (<<"P">> :> W_participle)
           @@ (<<"N">> :> W_infinitive) @@ (<<"S">> :> W_subjunctive)
           @@ (<<"M">> :> W_imperative) @@ (<<"O">> :> W_optative)
      [] name = "person" ->
           (<<"1">> :> W_first) @@ (<<"2">> :> W_second) @@ (<<"3">> :> W_third)
      [] name = "kind" ->
           (<<"N">> :> <<"negative">>) @@ (<<"I">> :> <<"interrogative">>)
      [] name = "pronoun_extras" -> (<<"K">> :> "elided with kai")
      [] name = "adjective_extras" ->
           (<<"C">> :> "comparative") @@ (<<"P">> :> "proper")
           @@ (<<"G">> :> "group") @@ (<<"N", "U", "I">> :> "indeclinable numeral")
           @@ (<<"S">> :> "superlative") @@ (<<"L">> :> "location")
      [] name = "conjunction_extras" -> (<<"N">> :> "negative")
      [] name = "adverb_extras" ->
           (<<"K">> :> "elided with kai") @@ (<<"I">> :> "interrogative")
           @@ (<<"N">> :> "negative") @@ (<<"C">> :> "comparative")
      [] name = "hebrew_extras" -> (<<"T">> :> "title")

\* an index expression s[i]: IndexError unless ok
Index(ok) == [op |-> "index", ok |-> ok]
\* result[field] = map[key]
Set(field, map, key) == [op |-> "set", field |-> field, map |-> map, key |-> key]
\* result[field] = value
Put(field, value) == [op |-> "put", field |-> field, value |-> value]
\* result['extras'].append(map[key])
Add(map, key) == [op |-> "add", map |-> map, key |-> key]
\* result['extras'].append(value)
AddLit(value) == [op |-> "addlit", value |-> value]
\* raise ValueError
Fail == [op |-> "raise"]

\* result[field] = map[s[i]]
SetAt(field, s, i) ==
    <<Index(i < Len(s)), Set(field, RmacMap(field), At(s, i))>>

\* for extra in s: result['extras'].append(map[extra])
Each(map, s) == [k \in 1..Len(s) |-> Add(map, <<s[k]>>)]

When(cond, steps) == IF cond THEN steps ELSE <<>>

\* sections[k], or the empty str where sections has no index k
Sec(sections, k) == IF k < Len(sections) THEN sections[k + 1] ELSE <<>>

C_CONJ == <<"C", "O", "N", "J">>
C_PREP == <<"P", "R", "E", "P">>
C_HEB == <<"H", "E", "B">>
C_ARAM == <<"A", "R", "A", "M">>
C_ADV == <<"A", "D", "V">>
C_INJ == <<"I", "N", "J">>
C_PRT == <<"P", "R", "T">>
C_LI == <<"L", "I">>
C_NUI == <<"N", "U", "I">>

\* lines 256-266
NounSteps(code) ==
    LET sections == SplitOn(code, "-") IN
    SetAt("case", code, 2) \o SetAt("number", code, 3) \o SetAt("gender", code, 4)
    \o When(Len(code) > 5,
            <<Index(2 < Len(sections))>>
            \o (IF Sec(sections, 2) = C_LI
                THEN <<Add(RmacMap("noun_extras"), C_LI)>>
                ELSE Each(RmacMap("noun_extras"), Sec(sections, 2))))

\* lines 267-283
AdjectiveSteps(code) ==
    LET sections == SplitOn(code, "-")
        morph == Sec(sections, 1)
    IN  <<Index(1 < Len(sections))>>
        \o (IF morph = C_NUI THEN <<AddLit("indeclinable numeral")>>
            ELSE SetAt("case", morph, 0) \o SetAt("number", morph, 1)
                 \o SetAt("gender", morph, 2)
                 \o When(Len(sections) > 2,
                         IF Sec(sections, 2) = C_NUI
                         THEN <<Add(RmacMap("adjective_extras"), C_NUI)>>
                         ELSE Each(RmacMap("adjective_extras"), Sec(sections, 2))))

\* the kind of pronoun code[0] names (lines 285-302)
PronounKind(c) ==
    CASE c = <<"I">> -> <<AddLit("interrogative")>>
      [] c = <<"R">> -> <<AddLit("relative")>>
      [] c = <<"D">> -> <<AddLit("demonstrative")>>
      [] c = <<"F">> -> <<AddLit("reflexive")>>
      [] c = <<"X">> -> <<AddLit("indefinite")>>
      [] c = <<"Q">> -> <<AddLit("correlative or interrogative")>>
      [] c = <<"S">> -> <<AddLit("possessive")>>
      [] c = <<"K">> -> <<AddLit("correlative")>>
      [] c = <<"C">> -> <<AddLit("reciprocal")>>
      [] OTHER -> <<>>

\* lines 284-326
PronounSteps(code) ==
    LET sections == SplitOn(code, "-")
        s1 == Sec(sections, 1)
        marked == At(s1, 1) \in {<<"S">>, <<"P">>}
        rest == IF marked THEN At(s1, 0) \o From(s1, 2) ELSE s1
    IN  PronounKind(At(code, 0))
        \o <<Index(2 < Len(code))>>
        \o (IF At(code, 2) \in {<<"1">>, <<"2">>, <<"3">>} THEN
                <<Index(1 < Len(sections)), Index(1 < Len(s1))>>
                \o When(At(s1, 1) = <<"S">>, <<AddLit("singular")>>)
                \o When(At(s1, 1) = <<"P">>, <<AddLit("plural")>>)
                \o SetAt("person", rest, 0) \o SetAt("case", rest, 1)
                \o SetAt("number", rest, 2)
                \o When(Len(rest) > 3, SetAt("gender", rest, 3))
                \o When(Len(sections) > 2,
                        Each(RmacMap("pronoun_extras"), Sec(sections, 2)))
            ELSE
                SetAt("case", code, 2) \o SetAt("number", code, 3)
                \o SetAt("gender", code, 4)
                \o When(Len(code) > 5, <<Fail>>))

\* lines 327-355
VerbSteps(code) ==
    LET second == SubSeq(code, 3, Min2(4, Len(code)))
                      \in {<<"2", "A">>, <<"2", "R">>, <<"2", "F">>,
                           <<"2", "L">>, <<"2", "P">>}
        offset == IF second THEN 1 ELSE 0
        mood == IF At(code, offset + 4) \in DOMAIN RmacMap("mood")
                THEN RmacMap("mood")[At(code, offset + 4)] ELSE <<>>
    IN  (IF second
         THEN <<AddLit("second"),
                Set("tense", RmacMap("tense"), SubSeq(code, 3, 4))>>
         ELSE SetAt("tense", code, 2))
        \o SetAt("tense", code, offset + 2)
        \o SetAt("voice", code, offset + 3)
        \o SetAt("mood", code, offset + 4)
        \o When(At(code, offset + 3) = <<"O">>, <<AddLit("deponent")>>)
        \o (IF mood \in {W_indicative, W_subjunctive, W_imperative, W_optative}
            THEN SetAt("person", code, offset + 6)
                 \o SetAt("number", code, offset + 7)
                 \o When(Len(code) > offset + 8, <<Fail>>)
            ELSE IF mood = W_participle
            THEN SetAt("case", code, offset + 6)
                 \o SetAt("number", code, offset + 7)
                 \o SetAt("gender", code, offset + 8)
                 \o When(Len(code) > offset + 9, <<Fail>>)
            ELSE When(Len(code) > offset + 5, <<Fail>>))

\* lines 220-357
RmacSteps(code) ==
    LET sections == SplitOn(code, "-")
        pos == IF At(code, 0) \in DOMAIN RmacMap("part_of_speech")
               THEN RmacMap("part_of_speech")[At(code, 0)] ELSE <<>>
    IN  IF StartsWith(code, C_CONJ) THEN
            <<Put("part_of_speech", <<"conjunction">>)>>
            \o When(Len(sections) > 1,
                    Each(RmacMap("conjunction_extras"), Sec(sections, 1)))
        ELSE IF code = C_PREP THEN <<Put("part_of_speech", <<"preposition">>)>>
        ELSE IF StartsWith(code, C_HEB) THEN
            <<Put("part_of_speech", <<"hebrew word">>)>>
            \o When(Len(sections) > 2,
                    Each(RmacMap("hebrew_extras"), Sec(sections, 1)))
        ELSE IF code = C_ARAM THEN <<Put("part_of_speech", <<"aramaic word">>)>>
        ELSE IF StartsWith(code, C_ADV) THEN
            <<Put("part_of_speech", <<"adverb">>)>>
            \o When(Len(code) > 3,
                    Each(RmacMap("adverb_extras"),
                         SelectSeq(From(code, 3), LAMBDA x : x # "-")))
        ELSE IF code = C_INJ THEN <<Put("part_of_speech", <<"interjection">>)>>
        ELSE IF StartsWith(code, C_PRT) THEN
            <<Put("part_of_speech", <<"particle">>)>>
            \o When(Len(code) > 4, <<Set("kind", RmacMap("kind"), At(code, 4))>>)
        ELSE
            SetAt("part_of_speech", code, 0)
            \o (IF pos \in {<<"noun">>, <<"article">>} THEN NounSteps(code)
                ELSE IF pos = <<"adjective">> THEN AdjectiveSteps(code)
                ELSE IF pos = <<"pronoun">> THEN PronounSteps(code)
                ELSE IF pos = <<"verb">> THEN VerbSteps(code)
                ELSE <<Fail>>)

\* the statements run in order; the first one that raises ends the decoding
RECURSIVE RunSteps(_, _)
RunSteps(steps, result) ==
    IF Len(steps) = 0 THEN Return(result)
    ELSE LET s == Head(steps) IN
         IF s.op = "raise" THEN Raise("ValueError", "", <<>>)
         ELSE IF s.op = "index" THEN
             IF s.ok THEN RunSteps(Tail(steps), result)
             ELSE Raise("IndexError", "index out of range", <<>>)
         ELSE IF s.op \in {"set", "add"} /\ s.key \notin DOMAIN s.map THEN
             Raise("KeyError", "", s.key)
         ELSE RunSteps(Tail(steps),
                  CASE s.op = "set" -> Store(result, s.field, s.map[s.key])
                    [] s.op = "put" -> Store(result, s.field, s.value)
                    [] s.op = "add" ->
                         Store(result, "extras", Append(result["extras"], s.map[s.key]))
                    [] s.op = "addlit" ->
                         Store(result, "extras", Append(result["extras"], s.value)))

\* interpret_rmac_code(code, word, idx): the exception caught at line 359 is
\* printed with code, word and idx (line 360) and raised again as it is
\* (line 361)
InterpretRmacCode(code, word, index) ==
    RunSteps(RmacSteps(code), "extras" :> <<>>)

----------------------------------------------------------------------------
(* SpecDecode: the two generation scripts on datasets of at most            *)
(* MaxDecWords words: interpret_morphology on the words of the LXX, and     *)
(* process_file on the rows of the OpenGNT.  The codes are ones each        *)
(* decoder has a rule for, which between them give every value of every     *)
(* attribute, and codes it has no rule for.                                 *)

MaxDecWords == 2

LxxCodes ==
    {<<"N", ".", "N", "S", "M">>, <<"N", ".", "G", "S", "M">>,
     <<"N", ".", "D", "D", "N">>, <<"N", ".", "A", "P", "F">>,
     <<"N", ".", "V", "S", "M">>, <<"V", ".", "P", "A", "I", "1", "S">>,
     <<"V", ".", "I", "M", "D", "2", "P">>,
     <<"V", ".", "A", "P", "S", "3", "D">>,
     <<"V", ".", "X", "A", "O", "3", "S">>, <<"V", ".", "F", "M", "N">>,
     <<"V", ".", "Y", "P", "P", "N", "S", "M">>,
     <<"R", "R", ".", "N", "S", "M">>, <<"P">>, <<"Z">>,
     <<"V", ".", "P", "A">>, <<"N", ".", "X">>}

RmacCodes ==
    {<<"N", "-", "N", "S", "M">>, <<"N", "-", "G", "P", "F">>,
     <<"N", "-", "D", "S", "N">>, <<"N", "-", "A", "S", "M", "-", "P">>,
     <<"N", "-", "V", "S", "M">>, <<"T", "-", "N", "S", "M">>,
     <<"A", "-", "N", "S", "M", "-", "C">>, <<"A", "-", "N", "U", "I">>,
     <<"P", "-", "1", "G", "S">>, <<"P", "-", "G", "S", "M">>,
     <<"R", "-", "N", "S", "M">>,
     <<"V", "-", "P", "A", "I", "-", "1", "S">>,
     <<"V", "-", "2", "A", "A", "I", "-", "3", "S">>,
     <<"V", "-", "I", "M", "I", "-", "2", "P">>,
     <<"V", "-", "A", "D", "S", "-", "3", "S">>,
     <<"V", "-", "R", "P", "P", "-", "N", "S", "M">>,
     <<"V", "-", "P", "N", "N">>,
     <<"V", "-", "L", "A", "I", "-", "3", "S">>,
     <<"V", "-", "P", "E", "M", "-", "2", "P">>,
     <<"V", "-", "F", "O", "O", "-", "3", "S">>,
     <<"C", "O", "N", "J", "-", "N">>, <<"P", "R", "E", "P">>,
     <<"A", "D", "V", "-", "K">>, <<"P", "R", "T", "-", "N">>,
     <<"H", "E", "B">>, <<"Z", "-", "N", "S", "M">>, <<"N", "-", "N", "S">>,
     <<"V", "-", "P", "A", "I", "-", "1", "S", "X">>,
     <<"N", "-", "X", "S", "M">>, <<>>}

\* the surface word of the k-th word of a dataset
Surface(k) == <<"w">> \o DecStr(k)

\* word_index of the first word: 0, or 239870 - 1 so that the second word
\* is one whose code line 124 sets
FirstIndexes == {0, 239869}

\* lxx_data as load_word and load_morphology leave it (lines 60-69)
LxxData(codes, first) ==
    [k \in 1..Len(codes) |->
        [word_index |-> first + k - 1, word |-> Surface(k),
         morph_code |-> PyStr(codes[k])]]

\* the rows csv.reader gives process_file: the columns convert_line decodes
GntRows(codes) ==
    [k \in 1..Len(codes) |-> [rmac |-> codes[k], OGNTa |-> Surface(k)]]

\* convert_line(row, idx) (lines 365-391): the morph_code, word and
\* word_index of the result
ConvertLine(row, index) ==
    LET m == InterpretRmacCode(row.rmac, row.OGNTa, index) IN
    IF ~m.ok THEN m
    ELSE Return([morph_code |-> PyDict(m.v), word |-> row.OGNTa,
                 word_index |-> index])

\* [convert_line(x, idx) for idx, x in enumerate(reader)] (line 399)
RECURSIVE ConvertFrom(_, _, _)
ConvertFrom(rows, k, done) ==
    IF k > Len(rows) THEN Return(done)
    ELSE LET r == ConvertLine(rows[k], k - 1) IN
         IF ~r.ok THEN r ELSE ConvertFrom(rows, k + 1, Append(done, r.v))

DecodeInit ==
    /\ TokIdle /\ ParseIdle /\ SearchIdle /\ RefIdle /\ ConIdle /\ StrIdle /\ ScanIdle
    /\ dec_set \in {"lxx", "gnt"}
    /\ \E n \in 1..MaxDecWords :
          IF dec_set = "lxx"
          THEN \E codes \in [1..n -> LxxCodes], first \in FirstIndexes :
                  dec_data = LxxData(codes, first)
          ELSE \E codes \in [1..n -> RmacCodes] : dec_data = GntRows(codes)
    /\ dec_out = NotCalled

\* generate_lxx.py main: interpret_morphology(lxx_data) (line 374)
CallInterpretMorphology ==
    /\ dec_set = "lxx" /\ dec_out = NotCalled
    /\ LET r == InterpretMorphology(dec_data, 1) IN
          /\ dec_data' = r.data
          /\ dec_out' = r.out
    /\ UNCHANGED <<tokVars, parsed, searchVars, refVars, conVars, strVars, dec_set, scanVars>>

\* generate_opengnt.py process_file: the conversion of every row (line 399)
CallProcessFile ==
    /\ dec_set = "gnt" /\ dec_out = NotCalled
    /\ dec_out' = ConvertFrom(dec_data, 1, <<>>)
    /\ UNCHANGED <<tokVars, parsed, searchVars, refVars, conVars, strVars, dec_set, scanVars,
                   dec_data>>

DecodeNext == CallInterpretMorphology \/ CallProcessFile

SpecDecode == DecodeInit /\ [][DecodeNext]_vars

\* the k-th word of the dataset is one its decoder has no rule for
Unmatched(k) ==
    IF dec_set = "lxx" THEN ~LxxDecode(dec_data[k], Len(dec_data)).ok
    ELSE ~InterpretRmacCode(dec_data[k].rmac, dec_data[k].OGNTa, k - 1).ok

\* the exception e carries a code, a surface word and a word index
Carries(e, code, word, index) ==
    /\ Len(e.arg) >= 3
    /\ e.arg[1] = code /\ e.arg[2] = word /\ e.arg[3] = index

\* C25: an unmatched morphological code is fatal and reported: when a code
\* matches no rule of the decoder in use, the decoding raises an error that
\* carries the offending code, the surface word and the word index, the
\* error reaches the caller, and no attribute map is returned or stored for
\* that word.
C25_UnmatchedCodeIsReported ==
    [][(dec_out = NotCalled /\ dec_out' # NotCalled) =>
          \A k \in 1..Len(dec_data) :
              (Unmatched(k) /\ \A j \in 1..(k - 1) : ~Unmatched(j)) =>
                  /\ ~dec_out'.ok
                  /\ IF dec_set = "lxx"
                     THEN /\ Carries(dec_out', dec_data[k].morph_code.v,
                                     dec_data[k].word, dec_data[k].word_index)
                          /\ dec_data'[k].morph_code.type = "str"
                     ELSE Carries(dec_out', dec_data[k].rmac,
                                  dec_data[k].OGNTa, k - 1)]_vars

\* the decoded attribute maps the generation has stored or returned
DecodedMaps ==
    IF dec_set = "lxx" THEN
        {dec_data[k].morph_code.v :
            k \in {j \in 1..Len(dec_data) : dec_data[j].morph_code.type = "dict"}}
    ELSE IF dec_out.ok THEN
        {dec_out.v[k].morph_code.v : k \in 1..Len(dec_out.v)}
    ELSE {}

\* to_query accepts `lexeme x --field v` and the query selects v
Selectable(field, v) ==
    ToQuery(OneFlagCommand(field, v))
        = Return([LexemeQuery(<<"x">>) EXCEPT !.filters[field] = v])

\* C29: decoder output and query vocabulary agree: every value that either
\* decoder stores under case, number, gender, tense, voice, mood or person
\* is a value the leaf command grammar accepts for the matching flag.
C29_DecodedValuesAreSelectable ==
    dec_out # NotCalled =>
        \A m \in DecodedMaps : \A f \in FieldSet \cap DOMAIN m :
            Selectable(f, m[f])

----------------------------------------------------------------------------
(* SpecEndToEnd: main_loop (src/scripture_searcher.py:212-229) on an lxx    *)
(* file of three words, as generate_lxx.py holds it before and after        *)
(* interpret_morphology, and a gnt file of no words.                        *)

\* the lxx file holds EndToEndWords words
EndToEndWords == 3

Logos == <<"l", "o", "g", "o", "s">>
Rhema == <<"r", "h", "e", "m", "a">>

N_NSM == <<"N", ".", "N", "S", "M">>
N_GSM == <<"N", ".", "G", "S", "M">>

\* the name of a morph_code key as a str
KeyName(field) == From(FlagWord(field), 2)

\* sub in s, for two strs
IsSubstring(sub, s) ==
    \E i \in 0..(Len(s) - Len(sub)) : SubSeq(s, i + 1, i + Len(sub)) = sub

\* row['morph_code'] as the filters of post_winnow read it
\* (text_query.py:98-127): `key in` a dict tests its keys, and `key in` a
\* str tests for a substring, where row['morph_code'][key] then raises
\* TypeError
MorphCodeRead(morph_code) ==
    IF morph_code.type = "dict" THEN morph_code.v
    ELSE [key \in {f \in FieldSet : IsSubstring(KeyName(f), morph_code.v)} |->
             <<"TypeError">>]

\* json.load(file) with each word's parent_set set to the list ps
\* (scripture_searcher.py:216-223)
JsonLoad(file, ps) ==
    [k \in 1..Len(file) |->
        [word_index |-> file[k].word_index, parent_set |-> ps,
         lexeme |-> file[k].lexeme,
         morph_code |-> MorphCodeRead(file[k].morph_code), Book |-> "Genesis"]]

EndToEndCodes ==
    {N_NSM, N_GSM, <<"V", ".", "P", "A", "I", "1", "S">>}

\* `lexeme L` and `lexeme L --field v`
LexemeCommand(lexeme) == W_lexeme \o Sp \o lexeme
FlagCommand(lexeme, field, v) ==
    LexemeCommand(lexeme) \o Sp \o FlagWord(field) \o Sp \o v

EndToEndCommands ==
    {LexemeCommand(Logos),
     FlagCommand(Logos, "case", W_genitive),
     FlagCommand(Logos, "case", W_nominative),
     FlagCommand(Logos, "case", W_vocative),
     FlagCommand(Rhema, "number", W_singular)}

\* lxx_data as load_word, load_morphology and load_lexemes leave it
\* (generate_lxx.py:22-69)
EndToEndData(lexemes, codes) ==
    [k \in 1..EndToEndWords |->
        [word_index |-> k - 1, word |-> Surface(k), lexeme |-> <<lexemes[k]>>,
         morph_code |-> PyStr(codes[k])]]

EndToEndInit ==
    /\ command \in EndToEndCommands
    /\ idx = 0 /\ state = "DEFAULT_STATE" /\ tokens = <<>>
    /\ paren_depth = 0 /\ command_str = <<>> /\ outcome = "running"
    /\ parsed = NotCalled
    /\ SearchIdle /\ RefIdle /\ ConIdle /\ StrIdle /\ ScanIdle
    /\ dec_set = "lxx"
    /\ \E lexemes \in [1..EndToEndWords -> {Logos, Rhema}],
          codes \in [1..EndToEndWords -> EndToEndCodes] :
          dec_data = EndToEndData(lexemes, codes)
    /\ dec_out = NotCalled

\* generate_lxx.py main before the searcher runs: interpret_morphology
\* (line 374)
Generate ==
    /\ parsed = NotCalled
    /\ CallInterpretMorphology

\* main_loop lines 212-227: to_query, the load of the two files, and
\* query.search(search_data); an exception of to_query ends main_loop
MainLoop ==
    /\ parsed = NotCalled
    /\ Become(Tokenize(command))
    /\ parsed' = ToQuery(command)
    /\ IF parsed'.ok
       THEN LET gnt_data == <<>>
                lxx_data == JsonLoad(dec_data, LxxId)
                r == Search(parsed'.v, <<lxx_data, gnt_data, lxx_data \o gnt_data>>,
                            SearchDataId)
            IN /\ query' = parsed'.v
               /\ heap' = r.heap
               /\ output_data' = r.ret
               /\ calls' = 1
       ELSE UNCHANGED searchVars
    /\ UNCHANGED <<refVars, libVars>>

EndToEndNext == Generate \/ MainLoop

SpecEndToEnd == EndToEndInit /\ [][EndToEndNext]_vars

\* the word is one of lexeme l whose morph_code is the code, as the str of
\* the code or as the dict interpret_morphology decodes it into
IsWord(word, l, code) ==
    /\ word.lexeme = <<l>>
    /\ \/ word.morph_code = PyStr(code)
       \/ word.morph_code = PyDict(LxxDecode([word EXCEPT !.morph_code = PyStr(code)],
                                             EndToEndWords).v)

\* the corpus λογος N.NSM, λογος N.GSM, ρημα: every word after the second
\* is one of lexeme ρημα
ExampleCorpus ==
    /\ IsWord(dec_data[1], Logos, N_NSM)
    /\ IsWord(dec_data[2], Logos, N_GSM)
    /\ \A k \in 3..Len(dec_data) : dec_data[k].lexeme = <<Rhema>>

\* the word_index of each record of the list the search returned
ResultIndexes == [k \in 1..Len(heap[output_data]) |-> heap[output_data][k].word_index]

\* C26: end to end, on the three-word corpus [word 0: lexeme λογος with
\* morph_code N.NSM, word 1: lexeme λογος with morph_code N.GSM, word 2:
\* lexeme ρημα], the result of `lexeme λογος --case genitive` is exactly the
\* one record with word_index 1.
C26_EndToEndExample ==
    (calls > 0 /\ ExampleCorpus /\ command = FlagCommand(Logos, "case", W_genitive))
        => ResultIndexes = <<1>>

\* the same once interpret_morphology has decoded the file
DecodedExample ==
    (calls > 0 /\ ExampleCorpus /\ dec_out = Return(None)
        /\ command = FlagCommand(Logos, "case", W_genitive))
        => ResultIndexes = <<1>>

DecodedExampleSearched ==
    calls > 0 /\ ExampleCorpus /\ dec_out = Return(None)
        /\ command = FlagCommand(Logos, "case", W_genitive)

----------------------------------------------------------------------------
(* SpecScan: to_query on one leaf command, with the two scanning loops run  *)
(* one iteration at a time: _tokenize_command_str on the input string, and  *)
(* then _cmd_to_lexeme_search on the words of the command token it gave.    *)
(* A Python program that is running takes its next step, which is the       *)
(* weak fairness of the specification.                                      *)

\* the lexeme is followed by at most MaxScanWords words
MaxScanWords == 2

ScanWords == {W_flag_case, W_genitive, W_junk}

RECURSIVE ScanTails(_)
ScanTails(n) ==
    IF n = 0 THEN {<<>>}
    ELSE LET S == ScanTails(n - 1) IN
         S \cup {s \o Sp \o w : s \in S, w \in ScanWords}

\* the leaf command `lexeme x` with the tail t
ScanCommandOf(t) == W_lexeme \o Sp \o <<"x">> \o t

\* leaf commands with every tail; and some of them in a group, before an
\* `and`, with an unbalanced delimiter, and without a lexeme
ScanInputs ==
    {ScanCommandOf(t) : t \in ScanTails(MaxScanWords)}
    \cup {<<"(">> \o ScanCommandOf(Sp \o W_flag_case \o Sp \o W_genitive) \o <<")">>,
          <<"[", " ">> \o ScanCommandOf(<<>>) \o <<" ", "]">>,
          ScanCommandOf(Sp \o W_flag_case \o Sp \o W_genitive) \o Sp \o S_and,
          <<"(">> \o ScanCommandOf(Sp \o W_flag_case) \o Sp \o S_and \o <<")">>,
          ScanCommandOf(<<>>) \o <<")">>,
          <<"(">> \o ScanCommandOf(Sp \o W_junk),
          W_lexeme}

ScanInit ==
    /\ command \in ScanInputs
    /\ idx = 0 /\ state = "DEFAULT_STATE" /\ tokens = <<>>
    /\ paren_depth = 0 /\ command_str = <<>> /\ outcome = "running"
    /\ ParseIdle /\ SearchIdle /\ RefIdle /\ LibIdle

\* the tokens of the list that are commands
CommandTokens(toks) ==
    SelectSeq(toks, LAMBDA t : IsCmd(t) /\ ~(Len(t) > 0 /\ t[1] \in {"(", ")"}))

\* _cmd_to_lexeme_search up to its loop (lines 100-119)
FlagScanStart(cmd_tokens) ==
    IF Len(cmd_tokens) = 0 THEN
        [cmd_tokens |-> cmd_tokens, lexeme |-> None, i |-> 0,
         state |-> "DEFAULT_STATE", filters |-> [f \in FieldSet |-> None],
         result |-> Raise("ValueError",
                          "Syntax: no arguments given to search type lexeme", <<>>)]
    ELSE LexStart(cmd_tokens)

\* the loop of _cmd_to_lexeme_search has neither raised nor been left
FlagScanRunning(s) == ~s.result.ok /\ s.result.exc = "none"

\* _cmd_to_query (lines 240-246) on the first command of the token list
\* reaches its call of _cmd_to_lexeme_search
FlagScanCalled ==
    /\ outcome = "returned"
    /\ Len(CommandTokens(tokens)) > 0
    /\ LET cmd_tokens == Split(CommandTokens(tokens)[1]) IN
          Len(cmd_tokens) > 0 /\ cmd_tokens[1] = W_lexeme

\* the call of _cmd_to_lexeme_search (line 247)
EnterFlagScan ==
    /\ lex_scan = NoFlagScan /\ FlagScanCalled
    /\ lex_scan' = FlagScanStart(Tail(Split(CommandTokens(tokens)[1])))
    /\ UNCHANGED <<tokVars, parsed, searchVars, refVars, conVars, strVars, decVars>>

\* one iteration of the loop, lines 120-209
FlagScanStep ==
    /\ lex_scan # NoFlagScan /\ FlagScanRunning(lex_scan)
    /\ lex_scan.i < Len(lex_scan.cmd_tokens)
    /\ lex_scan' = LexStep(lex_scan)
    /\ UNCHANGED <<tokVars, parsed, searchVars, refVars, conVars, strVars, decVars>>

\* after the loop, lines 211-237
FlagScanFinish ==
    /\ lex_scan # NoFlagScan /\ FlagScanRunning(lex_scan)
    /\ ~(lex_scan.i < Len(lex_scan.cmd_tokens))
    /\ lex_scan' = [lex_scan EXCEPT !.result = LexFinish(lex_scan)]
    /\ UNCHANGED <<tokVars, parsed, searchVars, refVars, conVars, strVars, decVars>>

ScanNext ==
    \/ ScanDefault \/ ScanCommand \/ TokenizeFinish
    \/ EnterFlagScan \/ FlagScanStep \/ FlagScanFinish

SpecScan == ScanInit /\ [][ScanNext]_vars /\ WF_vars(ScanNext)

\* one iteration of the tokenizer's loop
TokIterate(t) ==
    IF t.state = "DEFAULT_STATE" THEN DefaultStep(t) ELSE CommandStep(t)

\* the tokenizer is in its loop
InTokLoop(t) == t.outcome = "running" /\ t.idx < Len(t.command)

AfterStep ==
    TokState(command', idx', state', tokens', paren_depth', command_str', outcome')

\* an iteration of the tokenizer's loop never moves idx back, and one that
\* leaves idx where it was is followed by one that moves it on or raises
TokenizerAdvances ==
    InTokLoop(Cur) =>
        /\ idx' >= idx
        /\ (idx' = idx /\ InTokLoop(AfterStep)) =>
              \/ TokIterate(AfterStep).idx > idx'
              \/ TokIterate(AfterStep).outcome # "running"

\* an iteration of the flag scanner's loop moves i on or raises
FlagScanAdvances ==
    (lex_scan # NoFlagScan /\ FlagScanRunning(lex_scan)
        /\ lex_scan.i < Len(lex_scan.cmd_tokens)) =>
        \/ lex_scan'.i > lex_scan.i
        \/ (~lex_scan'.result.ok /\ lex_scan'.result.exc = "ValueError")

\* both loops have ended: the tokenizer returned or raised, and the flag
\* scanner, once entered, returned or raised
ScansEnded ==
    /\ outcome # "running"
    /\ lex_scan # NoFlagScan => ~FlagScanRunning(lex_scan)
    /\ lex_scan = NoFlagScan => ~FlagScanCalled

\* C30: both scanners always terminate: on every input string the
\* tokenizer's loop ends (idx never decreases, and of two consecutive
\* iterations at least one increases it, in both FSM states), and on every
\* token list each iteration of the leaf-command flag scanner advances its
\* index or raises, so that its loop ends too.
C30_BothScannersTerminate ==
    /\ [][TokenizerAdvances /\ FlagScanAdvances]_vars
    /\ <>[]ScansEnded

\* the tokenizer went through both of its states, passed the end of the
\* input after an `and`, and the flag scanner ran its loop to the end
C30_Witness ==
    /\ outcome = "returned" /\ idx > Len(command) /\ Len(tokens) >= 2
    /\ lex_scan # NoFlagScan /\ lex_scan.result.ok /\ lex_scan.i >= 2

====
